---- MODULE Spec2Model ----
(***************************************************************************)
(* Model of the AgentDB conversational SQL pipeline:                       *)
(*   - QueryExecutor (packages/core/src/agent/executor.ts)                 *)
(*   - LLMClient     (packages/core/src/agent/llm.ts, current class)       *)
(*   - the WebSocket chat handler (packages/server/src/ws/chat-socket.ts)  *)
(*   - the terminal REPL turn (packages/cli/src/chat/repl.ts)              *)
(*                                                                         *)
(* SQL texts are sequences of lexical tokens; the text is the              *)
(* concatenation of its tokens.  Word tokens stand for a run of letters,   *)
(* so two adjacent word tokens form one longer word.                       *)
(***************************************************************************)
EXTENDS Integers, Sequences, FiniteSets, TLC

VARIABLES
    qText,          \* SpecClassify: the SQL text handed to isDestructiveQuery
    qCalled,        \* SpecClassify: whether isDestructiveQuery has returned
    qResult,        \* SpecClassify: the boolean it returned
    readOnlyMode,   \* QueryExecutor.readOnlyMode
    ex,             \* per caller: the execute() call it last made
    provider,       \* auth.getProvider(): "openai" or "anthropic"
    useLocalCodex,  \* process.env.USE_LOCAL_CODEX === 'true'
    history,        \* LLMClient.conversationHistory
    call,           \* per caller: the chat() call it last made
    nOps,           \* number of LLMClient operations started so far
    srv,            \* ServerState: which of its fields are set
    queryHistory,   \* ServerState.queryHistory
    turn,           \* per handler invocation: the turn it runs or last ran
    turnsStarted,   \* number of turns started so far
    catTables,      \* SpecSchema: keys (schema.table) of the rows of the tables query
    catFks,         \* SpecSchema: the rows of the foreign-key query
    mapped,         \* SchemaEngine.schemaMap !== null
    schemaMap,      \* SchemaEngine.schemaMap.tables
    findCalled,     \* SpecSchema: whether findRelatedTables has returned
    findStart,      \* SpecSchema: its start key
    findDepth,      \* SpecSchema: its depth
    related,        \* SpecSchema: the tables it returned
    mapCall,        \* the running mapDatabase() call: the query awaited, its locals
    lastReturned,   \* the graph returned by the last completed mapDatabase() call
    seen,           \* what the last getSchemaMap() returned, and when
    sseData,        \* the response body handed to a stream parser: its lines
    sseParsed,      \* the parser that was applied to it and what it returned
    answerText,     \* the answer handed to extractSQL
    extracted,      \* whether extractSQL has returned, and what
    roq             \* per caller: the readOnlyQuery() call it last made on the connector

classifyVars == <<qText, qCalled, qResult>>
execVars == <<readOnlyMode, ex>>
llmVars == <<provider, useLocalCodex, history, call, nOps>>
turnVars == <<srv, queryHistory, turn, turnsStarted>>
schemaVars == <<catTables, catFks, mapped, schemaMap, findCalled, findStart, findDepth, related,
                mapCall, lastReturned, seen>>
parserVars == <<sseData, sseParsed, answerText, extracted>>
connVars == <<roq>>
vars == <<qText, qCalled, qResult, readOnlyMode, ex, provider, useLocalCodex, history,
          call, nOps, srv, queryHistory, turn, turnsStarted,
          catTables, catFks, mapped, schemaMap, findCalled, findStart, findDepth, related,
          mapCall, lastReturned, seen, sseData, sseParsed, answerText, extracted, roq>>

-----------------------------------------------------------------------------
(* Bounds of the model *)

MaxSqlLen == 4
\* LLMClient operations (chat, addToHistory, clearHistory) in one run of SpecLLM
MaxOps == 3
\* earlier successful chats a run of SpecLLM may start after
MaxPriorChats == 10
\* turns started in one run of SpecServer or SpecRepl
MaxTurns == 2

\* callers that may have a call in flight at the same time
Callers == {"h1", "h2"}

-----------------------------------------------------------------------------
(* The records of the state, at rest *)

\* ExecutionResult.error when absent
NoError == <<>>

\* no ExecutionResult yet
NoResult == [sql |-> <<>>, rows |-> 0, rowCount |-> 0, error |-> NoError]

ExIdle ==
    [pc |-> "idle", sql |-> <<>>, roAtCall |-> FALSE, mode |-> "none",
     nQuery |-> 0, nReadOnlyQuery |-> 0, dbFailed |-> FALSE, thrown |-> FALSE,
     driverMessage |-> <<>>, result |-> NoResult]

\* no chat() call made yet
CallIdle ==
    [pc |-> "idle", text |-> "", isRetry |-> FALSE, requests |-> 0, statuses |-> <<>>,
     tokenCalls |-> 0, tokenFailed |-> FALSE, nRefresh |-> 0, reqTokens |-> <<>>,
     ok |-> FALSE, content |-> "", error |-> "", detached |-> FALSE]

\* no turn run yet
TurnIdle ==
    [pc |-> "idle", events |-> <<>>, sql |-> <<>>, nChat |-> 0, nExec |-> 0,
     confirmed |-> <<>>, corrections |-> 0, blocked |-> FALSE, execFailed |-> 0,
     failure |-> "none", escaped |-> FALSE,
     answer |-> "", rows |-> 0, execOk |-> FALSE, summaryOk |-> FALSE, summaryFailed |-> FALSE,
     summaryAnswer |-> "", rowsToSend |-> <<>>, prompts |-> <<>>]

ClassifyIdle == qText = <<>> /\ qCalled = FALSE /\ qResult = FALSE

\* no stream parsed, no answer searched for SQL
ParserIdle ==
    /\ sseData = <<>>
    /\ sseParsed = [by |-> "none", content |-> <<>>, usage |-> [input |-> 0, output |-> 0, total |-> 0]]
    /\ answerText = <<>>
    /\ extracted = [called |-> FALSE, sql |-> <<>>]

\* a readOnlyQuery() call that was not made: no client, nothing issued
RoqIdle ==
    [pc |-> "idle", client |-> FALSE, issued |-> <<>>, results |-> <<>>, released |-> 0,
     outcome |-> "none"]

ConnIdle == roq = [p \in Callers |-> RoqIdle]

\* a mapDatabase() call that is not running: no query awaited, no locals
MapCallIdle == [pc |-> "idle", tablesResult |-> <<>>, fkResult |-> <<>>, outcome |-> "none"]

\* a new SchemaEngine: schemaMap is null, nothing called yet
EngineIdle ==
    /\ mapped = FALSE
    /\ schemaMap = <<>>
    /\ findCalled = FALSE
    /\ findStart = ""
    /\ findDepth = 0
    /\ related = <<>>
    /\ mapCall = MapCallIdle
    /\ lastReturned = [some |-> FALSE, tables |-> <<>>]
    /\ seen = [called |-> FALSE, during |-> "idle", null |-> TRUE, tables |-> <<>>]

\* no catalog read, no schema mapped, findRelatedTables not called
SchemaIdle ==
    /\ EngineIdle
    /\ catTables = <<>>
    /\ catFks = <<>>
ExecIdle == readOnlyMode = TRUE /\ ex = [p \in Callers |-> ExIdle]
LLMIdle ==
    /\ provider = "openai" /\ useLocalCodex = FALSE /\ history = <<>>
    /\ call = [p \in Callers |-> CallIdle] /\ nOps = 0
\* the application state before anything is connected: no connector, schema
\* engine, Model Client or executor; no connect request running; connect,
\* reported and sinceConnect are bookkeeping (the await the connect request is
\* suspended at, the last answer of POST /read-only on this connection, whether
\* a new connection was established and no turn has started on it)
SrvIdle ==
    [activeConnection |-> FALSE, isAuthenticated |-> FALSE, llmClient |-> FALSE,
     executor |-> FALSE, schemaEngine |-> "null", prompt |-> "none",
     connect |-> "idle", nConnects |-> 0, reported |-> TRUE, sinceConnect |-> FALSE]

TurnsIdle ==
    /\ srv = SrvIdle
    /\ queryHistory = <<>>
    /\ turn = [p \in Callers |-> TurnIdle]
    /\ turnsStarted = 0

-----------------------------------------------------------------------------
(* Lexical tokens of SQL texts *)

\* word tokens (runs of letters)
WordTokens == {"DELETE", "delete", "DROP", "SELECT", "sql", "SQL", "txt", "TXT"}
\* white space: a blank and a line terminator
SpaceTokens == {"SP", "NL"}
\* SEMI ;   DASH2 --   BOPEN /*   BCLOSE */   QUOTE '
PunctTokens == {"SEMI", "DASH2", "BOPEN", "BCLOSE", "QUOTE"}
\* FENCE ``` (in model answers only)

SqlAlphabet == {"DELETE", "delete", "SELECT"} \cup SpaceTokens \cup PunctTokens

RECURSIVE SeqsUpTo(_, _)
SeqsUpTo(S, n) ==
    IF n = 0 THEN {<<>>}
    ELSE LET shorter == SeqsUpTo(S, n - 1)
         IN  shorter \cup {Append(s, x) : s \in {t \in shorter : Len(t) = n - 1}, x \in S}

-----------------------------------------------------------------------------
(* QueryExecutor.isDestructiveQuery *)

DESTRUCTIVE_KEYWORDS == {"INSERT", "UPDATE", "DELETE", "DROP", "ALTER", "TRUNCATE", "CREATE"}

\* String.prototype.toUpperCase on one token
ToUpperCase(tok) ==
    IF tok = "delete" THEN "DELETE"
    ELSE IF tok = "sql" THEN "SQL"
    ELSE IF tok = "txt" THEN "TXT"
    ELSE tok

UpperAll(s) == [i \in 1..Len(s) |-> ToUpperCase(s[i])]

\* .replace(/--.*$/gm, ''): from each -- up to, not including, the line end
RECURSIVE StripLineComments(_, _)
StripLineComments(s, inComment) ==
    IF s = <<>> THEN <<>>
    ELSE LET h == Head(s) IN
         IF inComment
         THEN IF h = "NL" THEN <<h>> \o StripLineComments(Tail(s), FALSE)
              ELSE StripLineComments(Tail(s), TRUE)
         ELSE IF h = "DASH2" THEN StripLineComments(Tail(s), TRUE)
              ELSE <<h>> \o StripLineComments(Tail(s), FALSE)

\* index of the first BCLOSE at or after position i, 0 when there is none
RECURSIVE FirstClose(_, _)
FirstClose(s, i) ==
    IF i > Len(s) THEN 0
    ELSE IF s[i] = "BCLOSE" THEN i ELSE FirstClose(s, i + 1)

\* .replace(/\/\*[\s\S]*?\*\//g, ''): each /* up to the nearest following */;
\* an opener with no closer after it is left in place
RECURSIVE StripBlockComments(_, _)
StripBlockComments(s, i) ==
    IF i > Len(s) THEN <<>>
    ELSE IF s[i] = "BOPEN" /\ FirstClose(s, i + 1) # 0
         THEN StripBlockComments(s, FirstClose(s, i + 1) + 1)
         ELSE <<s[i]>> \o StripBlockComments(s, i + 1)

RECURSIVE TrimLeft(_)
TrimLeft(s) ==
    IF s # <<>> /\ Head(s) \in SpaceTokens THEN TrimLeft(Tail(s)) ELSE s

RECURSIVE TrimRight(_)
TrimRight(s) ==
    IF s # <<>> /\ s[Len(s)] \in SpaceTokens THEN TrimRight(SubSeq(s, 1, Len(s) - 1)) ELSE s

\* String.prototype.trim
Trim(s) == TrimRight(TrimLeft(s))

\* the text the keyword regexes are tested on (executor.ts 126-130)
Cleaned(sql) == UpperAll(Trim(StripBlockComments(StripLineComments(sql, FALSE), 1)))

\* \b after a keyword: the keyword is not continued by another letter
WordEndsAt(c, i) == i = Len(c) \/ c[i + 1] \notin WordTokens

\* (^|;)\s* before position i: only white space between i and the text start or a ;
RECURSIVE AfterStartOrSemi(_, _)
AfterStartOrSemi(c, i) ==
    IF i = 1 THEN TRUE
    ELSE IF c[i - 1] = "SEMI" THEN TRUE
    ELSE IF c[i - 1] \in SpaceTokens THEN AfterStartOrSemi(c, i - 1)
    ELSE FALSE

\* new RegExp(`(^|;)\\s*${keyword}\\b`).test(cleaned) for some keyword
KeywordRegexTest(c) ==
    \E i \in 1..Len(c) :
        /\ c[i] \in DESTRUCTIVE_KEYWORDS
        /\ AfterStartOrSemi(c, i)
        /\ WordEndsAt(c, i)

isDestructiveQuery(sql) == KeywordRegexTest(Cleaned(sql))

-----------------------------------------------------------------------------
(* QueryExecutor.execute and the DatabaseConnector calls it makes *)

\* the statements callers hand to execute
SqlTexts ==
    { <<"SELECT">>,
      <<"DELETE">>,
      <<"delete", "SP", "txt">>,
      <<"SELECT", "SEMI", "NL", "DROP">>,
      <<"DASH2", "DROP", "NL", "SELECT">> }

ReadOnlyBlockedMessage == <<"Modo somente leitura ativo. Desabilite read-only para executar.">>
DriverCauses == {"column foo does not exist"}
\* row counts a statement may return: none, or more than are sent for a summary
DbRowCounts == {0, 21}

\* what DatabaseConnector.query / readOnlyQuery throw: always an Error whose
\* message is the driver's, prefixed
ConnectorError(mode, cause) ==
    [isError |-> TRUE,
     message |-> IF mode = "readOnlyQuery" THEN <<"Erro na query read-only: ", cause>>
                 ELSE <<"Erro na query: ", cause>>]

\* a variant of ExecuteDispatch in which the read-only gate of executor.ts 81 is missing
ExecuteDispatch_NoGate(sql, readOnly) ==
    IF ~isDestructiveQuery(sql) THEN "readOnlyQuery" ELSE "query"

\* a variant of ExecuteDispatch that picks the connector call by the read-only flag
ExecuteDispatch_ByFlag(sql, readOnly) ==
    IF isDestructiveQuery(sql) /\ readOnly THEN "blocked"
    ELSE IF readOnly THEN "readOnlyQuery"
    ELSE "query"

\* executor.ts 81-111: what execute does with sql before its first await
ExecuteDispatch(sql, readOnly) ==
    IF isDestructiveQuery(sql) /\ readOnly THEN "blocked"
    ELSE IF ~isDestructiveQuery(sql) THEN "readOnlyQuery"
    ELSE "query"

\* executor.ts 82-89
BlockedResult(sql) ==
    [sql |-> sql, rows |-> 0, rowCount |-> 0, error |-> ReadOnlyBlockedMessage]

\* executor.ts 95-101 and 105-111; rows is the number of rows returned
OkResult(sql, n) ==
    [sql |-> sql, rows |-> n, rowCount |-> n, error |-> NoError]

\* executor.ts 112-122
CatchResult(sql, e) ==
    [sql |-> sql, rows |-> 0, rowCount |-> 0,
     error |-> IF e.isError THEN e.message ELSE <<"Erro desconhecido na query">>]

\* a variant of TryCovers in which db.query is called outside the try block
TryCovers_ReadOnlyOnly(mode) == mode = "readOnlyQuery"

\* whether execute's try block covers the call made in this mode (executor.ts 92-112)
TryCovers(mode) == mode \in {"readOnlyQuery", "query"}

\* the call record once execute(sql) has run up to its first await, or returned
ExecuteBegin(sql, readOnly) ==
    LET mode == ExecuteDispatch(sql, readOnly) IN
    [ExIdle EXCEPT
        !.sql = sql,
        !.roAtCall = readOnly,
        !.mode = mode,
        !.pc = IF mode = "blocked" THEN "done" ELSE "db",
        !.nQuery = IF mode = "query" THEN 1 ELSE 0,
        !.nReadOnlyQuery = IF mode = "readOnlyQuery" THEN 1 ELSE 0,
        !.result = IF mode = "blocked" THEN BlockedResult(sql) ELSE NoResult]

\* the database call resolves with n rows
ExecuteResolved(x, n) ==
    [x EXCEPT !.pc = "done", !.result = OkResult(x.sql, n)]

\* the database call rejects with e
ExecuteRejected(x, e) ==
    IF TryCovers(x.mode)
    THEN [x EXCEPT !.pc = "done", !.dbFailed = TRUE, !.driverMessage = e.message,
                   !.result = CatchResult(x.sql, e)]
    ELSE [x EXCEPT !.pc = "done", !.dbFailed = TRUE, !.driverMessage = e.message,
                   !.thrown = TRUE]

\* QueryExecutor.setReadOnlyMode
SetReadOnlyMode(enabled) ==
    /\ readOnlyMode' = enabled
    /\ UNCHANGED <<ex, classifyVars, schemaVars, parserVars, connVars, llmVars, turnVars>>

\* QueryExecutor.isReadOnly
isReadOnly == readOnlyMode

\* a variant of ExecuteCall in which executing a statement that is let through
\* while the mode is off turns the mode on again
ExecuteCall_ResetsMode(p, sql) ==
    /\ ex[p].pc # "db"
    /\ ex' = [ex EXCEPT ![p] = ExecuteBegin(sql, readOnlyMode)]
    /\ readOnlyMode' = (readOnlyMode \/ isDestructiveQuery(sql))
    /\ UNCHANGED <<classifyVars, schemaVars, parserVars, connVars, llmVars, turnVars>>

ExecuteCall(p, sql) ==
    /\ ex[p].pc # "db"
    /\ ex' = [ex EXCEPT ![p] = ExecuteBegin(sql, readOnlyMode)]
    /\ UNCHANGED <<readOnlyMode, classifyVars, schemaVars, parserVars, connVars, llmVars, turnVars>>

DbReturns(p, n) ==
    /\ ex[p].pc = "db"
    /\ ex' = [ex EXCEPT ![p] = ExecuteResolved(ex[p], n)]
    /\ UNCHANGED <<readOnlyMode, classifyVars, schemaVars, parserVars, connVars, llmVars, turnVars>>

DbThrows(p, cause) ==
    /\ ex[p].pc = "db"
    /\ ex' = [ex EXCEPT ![p] = ExecuteRejected(ex[p], ConnectorError(ex[p].mode, cause))]
    /\ UNCHANGED <<readOnlyMode, classifyVars, schemaVars, parserVars, connVars, llmVars, turnVars>>

ExecInit ==
    /\ readOnlyMode = TRUE
    /\ ex = [p \in Callers |-> ExIdle]
    /\ ClassifyIdle /\ ParserIdle /\ ConnIdle /\ SchemaIdle /\ LLMIdle /\ TurnsIdle

ExecNext ==
    \/ \E e \in BOOLEAN : SetReadOnlyMode(e)
    \/ \E p \in Callers, sql \in SqlTexts : ExecuteCall(p, sql)
    \/ \E p \in Callers, n \in DbRowCounts : DbReturns(p, n)
    \/ \E p \in Callers, cause \in DriverCauses : DbThrows(p, cause)

-----------------------------------------------------------------------------
(* LLMClient: history, chat, doChat, doChatOpenAI, doChatAnthropic *)

MAX_HISTORY_MESSAGES == 20

UserTexts == {"q"}
EmptyContent == "empty"
AnswerIds == {"ansText", "ansSelect", "ansSelectOnly", "ansDelete"}
HttpStatuses == {200, 400, 401, 429, 503}

Message(role, content) == [role |-> role, content |-> content]

\* a variant of trimHistory that removes the newest entries instead of the oldest
trimHistory_DropNewest(h) ==
    IF Len(h) > MAX_HISTORY_MESSAGES
    THEN SubSeq(h, 1, MAX_HISTORY_MESSAGES)
    ELSE h

\* llm.ts 927-932: splice(0, excess)
trimHistory(h) ==
    IF Len(h) > MAX_HISTORY_MESSAGES
    THEN SubSeq(h, Len(h) - MAX_HISTORY_MESSAGES + 1, Len(h))
    ELSE h

\* llm.ts 672-675
addToHistory(h, m) == trimHistory(Append(h, m))

\* llm.ts 659-660: the user message is pushed, then the history trimmed
ChatPushUser(h, text) == trimHistory(Append(h, Message("user", text)))

\* llm.ts 821 and 922: the assistant reply is pushed
PushAssistant(h, content) == Append(h, Message("assistant", content))

\* events a chat() call waits for
Ev(kind, status, content) == [kind |-> kind, status |-> status, content |-> content]

EventsAt(c) ==
    IF c.pc = "token" \/ c.pc = "refresh"
    THEN {Ev("tokenCached", 0, ""), Ev("tokenRefreshed", 0, ""), Ev("tokenFail", 0, "")}
    ELSE IF c.pc = "http"
    THEN {Ev("response", st, "") : st \in HttpStatuses \ {200}}
         \cup {Ev("response", 200, a) : a \in AnswerIds \cup {EmptyContent}}
         \cup {Ev("transportError", 0, "")}
    ELSE IF c.pc = "local"
    THEN {Ev("localOk", 0, a) : a \in AnswerIds} \cup {Ev("localFail", 0, "")}
    ELSE {}

\* chat() rejects with msg
Rejected(c, msg) == [c EXCEPT !.pc = "done", !.ok = FALSE, !.error = msg]

\* chat() resolves with content
Resolved(c, content) == [c EXCEPT !.pc = "done", !.ok = TRUE, !.content = content]

\* llm.ts 658-662 and 733-748: chat(text) up to the first await of doChat(false)
ChatBegin(h, text, local) ==
    [h |-> ChatPushUser(h, text),
     c |-> [CallIdle EXCEPT !.text = text, !.pc = IF local THEN "local" ELSE "token"]]

\* oauth.ts 360-409: getAccessToken() is refreshIfNeeded(): it throws when there is
\* no token data or the refresh request fails (tokenFail), returns the stored
\* access token while that is more than five minutes from expiry (tokenCached),
\* and otherwise stores and returns a new one (tokenRefreshed)
refreshIfNeeded(c, ev) ==
    [c EXCEPT !.tokenCalls = @ + 1,
              !.nRefresh = IF ev.kind = "tokenRefreshed" THEN @ + 1 ELSE @,
              !.tokenFailed = (ev.kind = "tokenFail")]

\* llm.ts 834 / 751: await this.auth.getAccessToken(), then the request is sent
\* with the token returned; a token is named by the number of refreshes before it
AfterToken(h, c, ev) ==
    LET c1 == refreshIfNeeded(c, ev) IN
    IF ev.kind # "tokenFail"
    THEN [h |-> h, c |-> [c1 EXCEPT !.pc = "http", !.requests = @ + 1,
                                    !.reqTokens = Append(@, c1.nRefresh)]]
    ELSE [h |-> h, c |-> Rejected(c1, "Nao autenticado")]

\* llm.ts 876-877 / 786-787: await this.auth.getAccessToken(); return doChat(true)
AfterRefresh(h, c, ev) ==
    LET c1 == refreshIfNeeded(c, ev) IN
    IF ev.kind # "tokenFail"
    THEN [h |-> h, c |-> [c1 EXCEPT !.pc = "token", !.isRetry = TRUE]]
    ELSE [h |-> h, c |-> Rejected(c1, "Nao autenticado")]

\* a variant of doChatOpenAI that takes the user message back when the request
\* is refused with 429
doChatOpenAI_RollsBack(h, c, ev) ==
    LET c1 == [c EXCEPT !.statuses = Append(@, ev.status)] IN
    IF ev.status = 401
    THEN IF ~c.isRetry
         THEN [h |-> h, c |-> [c1 EXCEPT !.pc = "refresh"]]
         ELSE [h |-> h, c |-> Rejected(c1, "Token invalido ou expirado")]
    ELSE IF ev.status = 429
    THEN [h |-> SubSeq(h, 1, Len(h) - 1), c |-> Rejected(c1, "Limite de uso atingido")]
    ELSE IF ev.status >= 500
    THEN [h |-> h, c |-> Rejected(c1, "Servico indisponivel")]
    ELSE IF ev.status # 200
    THEN [h |-> h, c |-> Rejected(c1, "Erro na API ChatGPT")]
    ELSE IF ev.content = EmptyContent
    THEN [h |-> h, c |-> Rejected(c1, "Resposta vazia do ChatGPT")]
    ELSE [h |-> PushAssistant(h, ev.content), c |-> Resolved(c1, ev.content)]

\* llm.ts 874-925: doChatOpenAI once the response has arrived
doChatOpenAI(h, c, ev) ==
    LET c1 == [c EXCEPT !.statuses = Append(@, ev.status)] IN
    IF ev.status = 401
    THEN IF ~c.isRetry
         THEN [h |-> h, c |-> [c1 EXCEPT !.pc = "refresh"]]
         ELSE [h |-> h, c |-> Rejected(c1, "Token invalido ou expirado")]
    ELSE IF ev.status = 429
    THEN [h |-> h, c |-> Rejected(c1, "Limite de uso atingido")]
    ELSE IF ev.status >= 500
    THEN [h |-> h, c |-> Rejected(c1, "Servico indisponivel")]
    ELSE IF ev.status # 200
    THEN [h |-> h, c |-> Rejected(c1, "Erro na API ChatGPT")]
    ELSE IF ev.content = EmptyContent
    THEN [h |-> h, c |-> Rejected(c1, "Resposta vazia do ChatGPT")]
    ELSE [h |-> PushAssistant(h, ev.content), c |-> Resolved(c1, ev.content)]

\* a variant of doChatAnthropic that retries a 401 without looking at isRetry
doChatAnthropic_RetryAgain(h, c, ev) ==
    IF ev.status = 401 /\ c.requests < 3
    THEN [h |-> h, c |-> [c EXCEPT !.statuses = Append(@, ev.status), !.pc = "refresh"]]
    ELSE doChatOpenAI(h, c, ev)

\* a variant of doChatAnthropic that treats a first 5xx answer like a first 401
doChatAnthropic_Retry5xx(h, c, ev) ==
    IF ev.status >= 500 /\ ~c.isRetry
    THEN [h |-> h, c |-> [c EXCEPT !.statuses = Append(@, ev.status), !.pc = "refresh"]]
    ELSE doChatOpenAI(h, c, ev)

\* a variant of doChatAnthropic without the empty-content test of llm.ts 817-819
doChatAnthropic_NoEmptyCheck(h, c, ev) ==
    IF ev.status = 200
    THEN [h |-> PushAssistant(h, ev.content),
          c |-> Resolved([c EXCEPT !.statuses = Append(@, ev.status)], ev.content)]
    ELSE doChatOpenAI(h, c, ev)

\* llm.ts 784-830: doChatAnthropic once the response has arrived
doChatAnthropic(h, c, ev) ==
    LET c1 == [c EXCEPT !.statuses = Append(@, ev.status)] IN
    IF ev.status = 401
    THEN IF ~c.isRetry
         THEN [h |-> h, c |-> [c1 EXCEPT !.pc = "refresh"]]
         ELSE [h |-> h, c |-> Rejected(c1, "Token Anthropic invalido ou expirado")]
    ELSE IF ev.status = 429
    THEN [h |-> h, c |-> Rejected(c1, "Limite de uso Anthropic atingido")]
    ELSE IF ev.status >= 500
    THEN [h |-> h, c |-> Rejected(c1, "Servico Anthropic indisponivel")]
    ELSE IF ev.status # 200
    THEN [h |-> h, c |-> Rejected(c1, "Erro na API Anthropic")]
    ELSE IF ev.content = EmptyContent
    THEN [h |-> h, c |-> Rejected(c1, "Resposta vazia do Anthropic")]
    ELSE [h |-> PushAssistant(h, ev.content), c |-> Resolved(c1, ev.content)]

\* llm.ts 677-731: runLocalCodex settles; the reply is not pushed to the history
AfterLocalCodex(h, c, ev) ==
    IF ev.kind = "localOk"
    THEN [h |-> h, c |-> Resolved(c, ev.content)]
    ELSE [h |-> h, c |-> Rejected(c, "Codex CLI falhou")]

\* one step of a chat() call: the history and call record after event ev
ChatStep(h, c, ev, prov) ==
    IF c.pc = "token" THEN AfterToken(h, c, ev)
    ELSE IF c.pc = "refresh" THEN AfterRefresh(h, c, ev)
    ELSE IF c.pc = "local" THEN AfterLocalCodex(h, c, ev)
    ELSE IF ev.kind = "transportError"
    THEN [h |-> h, c |-> Rejected([c EXCEPT !.statuses = Append(@, 0)], "Timeout")]
    ELSE IF prov = "anthropic" THEN doChatAnthropic(h, c, ev)
    ELSE doChatOpenAI(h, c, ev)

InFlight(c) == c.pc \in {"token", "http", "refresh", "local"}

(* SpecLLM: one LLMClient driven by one caller *)

\* the history left by k successful chats on a fresh client
RECURSIVE PriorHistory(_)
PriorHistory(k) ==
    IF k = 0 THEN <<>>
    ELSE PushAssistant(ChatPushUser(PriorHistory(k - 1), "old"), "ansText")

LLMInit ==
    /\ provider \in {"openai", "anthropic"}
    /\ useLocalCodex \in BOOLEAN
    /\ history \in {PriorHistory(k) : k \in 0..MaxPriorChats}
    /\ call = [p \in Callers |-> CallIdle]
    /\ nOps = 0
    /\ ClassifyIdle /\ ParserIdle /\ ConnIdle /\ SchemaIdle /\ ExecIdle /\ TurnsIdle

LLMChat(p, text) ==
    /\ nOps < MaxOps
    /\ ~InFlight(call[p])
    /\ LET r == ChatBegin(history, text, useLocalCodex) IN
         /\ history' = r.h
         /\ call' = [call EXCEPT ![p] = r.c]
    /\ nOps' = nOps + 1
    /\ UNCHANGED <<provider, useLocalCodex, classifyVars, schemaVars, parserVars, connVars, execVars, turnVars>>

LLMEvent(p) ==
    /\ InFlight(call[p])
    /\ \E ev \in EventsAt(call[p]) :
         LET r == ChatStep(history, call[p], ev, provider) IN
         /\ history' = r.h
         /\ call' = [call EXCEPT ![p] = r.c]
    /\ UNCHANGED <<provider, useLocalCodex, nOps, classifyVars, schemaVars, parserVars, connVars, execVars, turnVars>>

LLMAddToHistory(p, m) ==
    /\ nOps < MaxOps
    /\ ~InFlight(call[p])
    /\ history' = addToHistory(history, m)
    /\ nOps' = nOps + 1
    /\ UNCHANGED <<provider, useLocalCodex, call, classifyVars, schemaVars, parserVars, connVars, execVars, turnVars>>

\* llm.ts 664-666
LLMClearHistory(p) ==
    /\ nOps < MaxOps
    /\ ~InFlight(call[p])
    /\ history' = <<>>
    /\ nOps' = nOps + 1
    /\ UNCHANGED <<provider, useLocalCodex, call, classifyVars, schemaVars, parserVars, connVars, execVars, turnVars>>

LLMNext ==
    \/ \E text \in UserTexts : LLMChat("h1", text)
    \/ LLMEvent("h1")
    \/ \E role \in {"system", "user", "assistant"} : LLMAddToHistory("h1", Message(role, "added"))
    \/ LLMClearHistory("h1")

-----------------------------------------------------------------------------
(* QueryExecutor.extractSQL and the text left when the fenced blocks are removed *)

sqlStarters ==
    {"SELECT", "INSERT", "UPDATE", "DELETE", "CREATE", "ALTER", "DROP", "TRUNCATE",
     "WITH", "EXPLAIN", "BEGIN"}

\* executor.ts 150-166: upper.startsWith(kw) for some starter
looksLikeSQL(text) ==
    LET upper == Trim(UpperAll(text)) IN upper # <<>> /\ upper[1] \in sqlStarters

\* last index of the white-space run that starts at i (i - 1 when there is none)
RECURSIVE SpaceRunEnd(_, _)
SpaceRunEnd(s, i) ==
    IF i <= Len(s) /\ s[i] \in SpaceTokens THEN SpaceRunEnd(s, i + 1) ELSE i - 1

\* largest index in a..b holding NL, 0 when there is none
RECURSIVE LastNewline(_, _, _)
LastNewline(s, a, b) ==
    IF b < a THEN 0 ELSE IF s[b] = "NL" THEN b ELSE LastNewline(s, a, b - 1)

RECURSIVE FirstFence(_, _)
FirstFence(s, i) ==
    IF i > Len(s) THEN 0 ELSE IF s[i] = "FENCE" THEN i ELSE FirstFence(s, i + 1)

\* /```sql\s*\n([\s\S]*?)```/i (tagged) or /```\s*\n([\s\S]*?)```/ matched at i:
\* the opening fence, white space holding a line end, the content, the next fence
FenceMatch(s, i, tagged) ==
    LET t   == IF tagged THEN i + 2 ELSE i + 1
        tag == ~tagged \/ (i + 1 <= Len(s) /\ s[i + 1] \in {"sql", "SQL"})
        nl  == LastNewline(s, t, SpaceRunEnd(s, t))
        k   == IF nl = 0 THEN 0 ELSE FirstFence(s, nl + 1)
    IN  [ok |-> i <= Len(s) /\ s[i] = "FENCE" /\ tag /\ nl # 0 /\ k # 0,
         content |-> IF nl # 0 /\ k # 0 THEN SubSeq(s, nl + 1, k - 1) ELSE <<>>,
         end |-> k]

\* leftmost match at or after i, 0 when there is none
RECURSIVE FirstMatch(_, _, _)
FirstMatch(s, i, tagged) ==
    IF i > Len(s) THEN 0
    ELSE IF FenceMatch(s, i, tagged).ok THEN i ELSE FirstMatch(s, i + 1, tagged)

\* String.prototype.split('\n')
RECURSIVE SplitLines(_)
SplitLines(s) ==
    LET RECURSIVE FirstNL(_)
        FirstNL(i) == IF i > Len(s) THEN 0 ELSE IF s[i] = "NL" THEN i ELSE FirstNL(i + 1)
        n == FirstNL(1)
    IN  IF n = 0 THEN <<s>>
        ELSE <<SubSeq(s, 1, n - 1)>> \o SplitLines(SubSeq(s, n + 1, Len(s)))

\* Array.prototype.join('\n')
RECURSIVE JoinLines(_)
JoinLines(ls) ==
    IF ls = <<>> THEN <<>>
    ELSE IF Len(ls) = 1 THEN ls[1]
    ELSE ls[1] \o <<"NL">> \o JoinLines(Tail(ls))

\* executor.ts 55-69: the for loop over the lines
RECURSIVE ScanLines(_, _, _)
ScanLines(lines, inSQL, sqlLines) ==
    IF lines = <<>> THEN sqlLines
    ELSE LET trimmed == Trim(Head(lines))
             in2 == inSQL \/ looksLikeSQL(trimmed)
         IN  IF ~in2 THEN ScanLines(Tail(lines), FALSE, sqlLines)
             ELSE IF trimmed = <<>> /\ sqlLines # <<>>
                  THEN ScanLines(Tail(lines), TRUE, Append(sqlLines, trimmed))
             ELSE IF trimmed # <<>>
                  THEN ScanLines(Tail(lines), TRUE, Append(sqlLines, trimmed))
             ELSE IF sqlLines # <<>> THEN sqlLines
             ELSE ScanLines(Tail(lines), TRUE, sqlLines)

\* executor.ts 51-77; <<>> stands for null
LineScan(s) ==
    LET sqlLines == ScanLines(SplitLines(s), FALSE, <<>>)
        sql == Trim(JoinLines(sqlLines))
    IN  IF sqlLines = <<>> THEN <<>>
        ELSE IF sql # <<>> /\ sql[Len(sql)] = "SEMI" THEN sql
        ELSE IF looksLikeSQL(sql) THEN sql
        ELSE <<>>

\* a variant of extractSQL that tries the generic fenced block first
extractSQL_GenericFirst(llmResponse) ==
    LET b == FirstMatch(llmResponse, 1, TRUE)
        blockSql == IF b = 0 THEN <<>> ELSE Trim(FenceMatch(llmResponse, b, TRUE).content)
        g == FirstMatch(llmResponse, 1, FALSE)
        generic == IF g = 0 THEN <<>> ELSE Trim(FenceMatch(llmResponse, g, FALSE).content)
    IN  IF g # 0 /\ looksLikeSQL(generic) THEN generic
        ELSE IF blockSql # <<>> THEN blockSql
        ELSE LineScan(llmResponse)

\* executor.ts 34-78; <<>> stands for null
extractSQL(llmResponse) ==
    LET b == FirstMatch(llmResponse, 1, TRUE)
        blockSql == IF b = 0 THEN <<>> ELSE Trim(FenceMatch(llmResponse, b, TRUE).content)
        g == FirstMatch(llmResponse, 1, FALSE)
        generic == IF g = 0 THEN <<>> ELSE Trim(FenceMatch(llmResponse, g, FALSE).content)
    IN  IF blockSql # <<>> THEN blockSql
        ELSE IF g # 0 /\ looksLikeSQL(generic) THEN generic
        ELSE LineScan(llmResponse)

\* String.prototype.replace with one of the two fence patterns and the g flag
RECURSIVE RemoveFenced(_, _, _)
RemoveFenced(s, i, tagged) ==
    LET m == FirstMatch(s, i, tagged) IN
    IF m = 0 THEN SubSeq(s, i, Len(s))
    ELSE SubSeq(s, i, m - 1) \o RemoveFenced(s, FenceMatch(s, m, tagged).end + 1, tagged)

\* chat-socket.ts 74-77, repl.ts 121-124
textWithoutSQL(content) == Trim(RemoveFenced(RemoveFenced(content, 1, TRUE), 1, FALSE))

\* the model answers, as texts
AnswerText(a) ==
    IF a = "ansText" THEN <<"txt", "SP", "txt">>
    ELSE IF a = "ansSelect"
    THEN <<"txt", "NL", "FENCE", "sql", "NL", "SELECT", "SP", "txt", "NL", "FENCE", "NL">>
    ELSE IF a = "ansSelectOnly"
    THEN <<"FENCE", "sql", "NL", "SELECT", "NL", "FENCE">>
    ELSE IF a = "ansDelete"
    THEN <<"FENCE", "sql", "NL", "DELETE", "SP", "txt", "NL", "FENCE">>
    ELSE <<>>

-----------------------------------------------------------------------------
(* A conversational turn: what the WebSocket handler and the REPL share *)

QUERY_HISTORY_LIMIT == 50

Event(type, content) == [type |-> type, content |-> content]

Emit(t, type, content) == [t EXCEPT !.events = Append(@, Event(type, content))]

\* a variant of EndTurn in which the handler never completes
EndTurn_Hangs(t) == t

EndTurn(t) == [t EXCEPT !.pc = "idle"]

\* bookkeeping: the database call of the execute that just returned had failed
NoteExecute(w) == [w EXCEPT !.t.execFailed = IF w.x.dbFailed THEN @ + 1 ELSE @]

\* bookkeeping: the statement of the turn is destructive while read-only mode is on
NoteBlocked(t, sql, readOnly) == [t EXCEPT !.blocked = isDestructiveQuery(sql) /\ readOnly]

\* bookkeeping: what failed in the turn ("none" while nothing has)
NoteFailure(t, kind) == [t EXCEPT !.failure = kind]

\* bookkeeping: what the call the turn waited for has settled with
NoteSettled(w) ==
    IF w.t.pc = "chat" /\ w.c.pc = "done" /\ w.c.ok
    THEN [w EXCEPT !.t.answer = w.c.content]
    ELSE IF w.t.pc = "summary" /\ w.c.pc = "done"
    THEN [w EXCEPT !.t.summaryOk = w.c.ok, !.t.summaryFailed = ~w.c.ok,
                   !.t.summaryAnswer = IF w.c.ok THEN w.c.content ELSE ""]
    ELSE IF w.t.pc = "exec" /\ w.x.pc = "done" /\ ~w.x.thrown /\ w.x.result.error = NoError
    THEN [w EXCEPT !.t.execOk = TRUE, !.t.rows = w.x.result.rows]
    ELSE w

\* the history, chat call, execute call, turn, query history and application
\* state one handler step works on
World(p) ==
    [h |-> history, c |-> call[p], x |-> ex[p], t |-> turn[p], qh |-> queryHistory, s |-> srv]

\* llmClient.chat(text) is called: the turn waits for it at position pc
CallChat(w, text, pc, local) ==
    LET r == ChatBegin(w.h, text, local) IN
    [w EXCEPT !.h = r.h, !.c = r.c,
              !.t = [w.t EXCEPT !.pc = pc, !.nChat = @ + 1,
                                !.prompts = Append(@, w.s.prompt)]]

\* executor.execute(sql) is called: the turn waits for it at position pc
CallExecute(w, sql, pc, readOnly) ==
    [w EXCEPT !.x = ExecuteBegin(sql, readOnly),
              !.t = [w.t EXCEPT !.pc = pc, !.nExec = @ + 1, !.sql = sql]]

\* a variant of SaveToQueryHistory that never drops an entry
SaveToQueryHistory_KeepsAll(qh, result) ==
    <<[sql |-> result.sql, rowCount |-> result.rowCount, error |-> result.error]>> \o qh

\* chat-socket.ts 92-101, query.ts 26-37: unshift, then pop beyond the limit
SaveToQueryHistory(qh, result) ==
    LET added == <<[sql |-> result.sql, rowCount |-> result.rowCount, error |-> result.error]>> \o qh
    IN  IF Len(added) > QUERY_HISTORY_LIMIT THEN SubSeq(added, 1, Len(added) - 1) ELSE added

\* the rows of a result of n rows, each named by its position
Rows(n) == [i \in 1..n |-> i]

\* rows sent with a summary request
SUMMARY_ROW_LIMIT == 20

\* a variant of slice that keeps the last rows instead of the first
slice_FromEnd(rows, end) ==
    IF Len(rows) < end THEN rows ELSE SubSeq(rows, Len(rows) - end + 1, Len(rows))

\* Array.prototype.slice(0, end)
slice(rows, end) ==
    IF Len(rows) < end THEN rows ELSE SubSeq(rows, 1, end)

\* bookkeeping: the rows the summary message of the turn carries
NoteRowsToSend(w, result) ==
    [w EXCEPT !.t.rowsToSend = slice(Rows(result.rows), SUMMARY_ROW_LIMIT)]

SummaryMessage == "Resultado da query"
CorrectionMessage == "A query retornou um erro"

-----------------------------------------------------------------------------
(* The WebSocket chat handler, chat-socket.ts 33-136 *)

\* the message of the TypeError thrown by a method call on null
NullDereference == <<"Cannot read properties of null">>

\* a variant of SrvCatch for a handler whose await of chat is outside the try block:
\* the error leaves the handler as a rejected promise and nothing is sent
SrvCatch_Escapes(t, msg) == [EndTurn(t) EXCEPT !.escaped = TRUE]

\* chat-socket.ts 132-135: the catch of the handler
SrvCatch(t, msg) == EndTurn(Emit(t, "error", msg))

\* a variant of SrvAfterSummary that never sends the summary
SrvAfterSummary_Silent(w) == [w EXCEPT !.t = EndTurn(w.t)]

\* a variant of SrvAfterSummary that lets a failed summary call reach the handler's catch
SrvAfterSummary_Reports(w) ==
    IF w.c.ok
    THEN [w EXCEPT !.t = EndTurn(Emit(w.t, "summary", AnswerText(w.c.content)))]
    ELSE [w EXCEPT !.t = EndTurn(Emit(w.t, "error", <<w.c.error>>))]

\* a variant of SrvAfterSummary that sends the result event again after the summary
SrvAfterSummary_ResultLast(w) ==
    IF w.c.ok
    THEN [w EXCEPT !.t = EndTurn(Emit(Emit(w.t, "summary", AnswerText(w.c.content)), "result", <<>>))]
    ELSE [w EXCEPT !.t = EndTurn(w.t)]

\* chat-socket.ts 116-126: the summary chat has settled
SrvAfterSummary(w) ==
    IF w.c.ok
    THEN [w EXCEPT !.t = EndTurn(Emit(w.t, "summary", AnswerText(w.c.content)))]
    ELSE [w EXCEPT !.t = EndTurn(w.t)]

\* chat-socket.ts 91-127: execute has returned; a state.llmClient that became
\* null meanwhile makes line 121 throw inside the inner try, which swallows it
SrvAfterExecute(w0, local) ==
    LET w == NoteExecute(w0) IN
    IF w.x.thrown
    THEN [w EXCEPT !.t = SrvCatch(NoteFailure(w.t, "sql"), w.x.driverMessage)]
    ELSE LET result == w.x.result
             w1 == [w EXCEPT !.qh = SaveToQueryHistory(w.qh, result)]
         IN  IF result.error # NoError
             THEN [w1 EXCEPT !.t = EndTurn(Emit(NoteFailure(w.t, "sql"), "error",
                                                <<"Erro SQL: ">> \o result.error))]
             ELSE LET w2 == [w1 EXCEPT !.t = Emit(w.t, "result", <<>>)]
                  IN  IF result.rows > 0 /\ w.s.llmClient
                      THEN CallChat(NoteRowsToSend(w2, result), SummaryMessage, "summary", local)
                      ELSE [w2 EXCEPT !.t = EndTurn(w2.t)]

\* a variant of SrvAfterChat that sends nothing for an answer without SQL
SrvAfterChat_NoPlainText(w, readOnly, local) ==
    IF ~w.c.ok
    THEN [w EXCEPT !.t = SrvCatch(NoteFailure(w.t, "chat"), <<w.c.error>>)]
    ELSE IF ~w.s.executor
    THEN [w EXCEPT !.t = SrvCatch(NoteFailure(w.t, "state"), NullDereference)]
    ELSE LET content == AnswerText(w.c.content)
             sql == extractSQL(content)
         IN  IF sql # <<>>
             THEN LET rest == textWithoutSQL(content)
                      t1 == IF rest # <<>> THEN Emit(w.t, "text", rest) ELSE w.t
                      t2 == Emit(Emit(t1, "sql", sql), "executing", <<>>)
                      t3 == NoteBlocked(t2, sql, readOnly)
                      w1 == CallExecute([w EXCEPT !.t = t3], sql, "exec", readOnly)
                  IN  IF w1.x.pc = "done" THEN SrvAfterExecute(w1, local) ELSE w1
             ELSE [w EXCEPT !.t = EndTurn(w.t)]

\* chat-socket.ts 69-135: the first chat has settled; a state.executor that
\* became null meanwhile makes line 70 throw into the handler's catch
SrvAfterChat(w, readOnly, local) ==
    IF ~w.c.ok
    THEN [w EXCEPT !.t = SrvCatch(NoteFailure(w.t, "chat"), <<w.c.error>>)]
    ELSE IF ~w.s.executor
    THEN [w EXCEPT !.t = SrvCatch(NoteFailure(w.t, "state"), NullDereference)]
    ELSE LET content == AnswerText(w.c.content)
             sql == extractSQL(content)
         IN  IF sql # <<>>
             THEN LET rest == textWithoutSQL(content)
                      t1 == IF rest # <<>> THEN Emit(w.t, "text", rest) ELSE w.t
                      t2 == Emit(Emit(t1, "sql", sql), "executing", <<>>)
                      t3 == NoteBlocked(t2, sql, readOnly)
                      w1 == CallExecute([w EXCEPT !.t = t3], sql, "exec", readOnly)
                  IN  IF w1.x.pc = "done" THEN SrvAfterExecute(w1, local) ELSE w1
             ELSE [w EXCEPT !.t = EndTurn(Emit(w.t, "text", content))]

\* query.ts 25-54: executor.execute of POST /api/query/execute has returned
PostExecuteAfter(w) ==
    IF w.x.thrown
    THEN [w EXCEPT !.t = EndTurn(Emit(w.t, "http500", w.x.driverMessage))]
    ELSE LET result == w.x.result
             w1 == [w EXCEPT !.qh = SaveToQueryHistory(w.qh, result)]
         IN  IF result.error # NoError
             THEN [w1 EXCEPT !.t = EndTurn(Emit(w.t, "http400", result.error))]
             ELSE [w1 EXCEPT !.t = EndTurn(Emit(w.t, "http200", <<>>))]

\* the handler resumes after the await it is suspended at
SrvResume(w0, readOnly, local) ==
    LET w == NoteSettled(w0) IN
    IF w.t.pc = "chat" /\ w.c.pc = "done" THEN SrvAfterChat(w, readOnly, local)
    ELSE IF w.t.pc = "summary" /\ w.c.pc = "done" THEN SrvAfterSummary(w)
    ELSE IF w.t.pc = "exec" /\ w.x.pc = "done" THEN SrvAfterExecute(w, local)
    ELSE IF w.t.pc = "direct" /\ w.x.pc = "done" THEN PostExecuteAfter(w)
    ELSE w

\* the handler has run up to its next await: a call that settled on the way is over
Commit(p, w) ==
    /\ history' = w.h
    /\ call' = [call EXCEPT ![p] = IF w.c.pc = "done" THEN CallIdle ELSE w.c]
    /\ ex' = [ex EXCEPT ![p] = IF w.x.pc = "done" THEN ExIdle ELSE w.x]
    /\ turn' = [turn EXCEPT ![p] = w.t]
    /\ queryHistory' = w.qh

\* context.ts 12-13 with schema-engine.ts 400-401: the system prompt renders the
\* graph of the engine, or the placeholder while the engine has no graph
buildSystemPrompt(schemaEngine) ==
    IF schemaEngine = "mapped" THEN "schema" ELSE "placeholder"

\* chat-socket.ts 52-61: a missing Model Client is created with the prompt
\* built now, a missing executor is created; a turn starts
LazyInit(s) ==
    [s EXCEPT !.llmClient = TRUE, !.executor = TRUE,
              !.prompt = IF s.llmClient THEN @ ELSE buildSystemPrompt(s.schemaEngine),
              !.sinceConnect = FALSE]

\* what arrives on the socket: text that JSON.parse rejects, JSON that is not a
\* {type: 'message', content} with content, or a chat message
WsInputs == {"unparseable", "malformed", "message"}

\* chat-socket.ts 33-67: a message arrives; the handler runs up to its first await
WsMessage(p, input, text) ==
    /\ turn[p].pc = "idle"
    /\ turnsStarted < MaxTurns
    /\ turnsStarted' = turnsStarted + 1
    /\ IF input = "unparseable"
       THEN /\ turn' = [turn EXCEPT ![p] = SrvCatch(NoteFailure(TurnIdle, "input"),
                                                     <<"Unexpected token in JSON">>)]
            /\ UNCHANGED <<history, call, ex, queryHistory, srv, readOnlyMode>>
       ELSE IF input = "malformed"
       THEN /\ turn' = [turn EXCEPT ![p] = EndTurn(Emit(NoteFailure(TurnIdle, "input"), "error",
                                                        <<"Formato de mensagem invalido">>))]
            /\ UNCHANGED <<history, call, ex, queryHistory, srv, readOnlyMode>>
       ELSE IF ~srv.activeConnection \/ srv.schemaEngine = "null"
       THEN /\ turn' = [turn EXCEPT ![p] = EndTurn(Emit(NoteFailure(TurnIdle, "connection"), "error",
                                                        <<"Nenhum banco conectado">>))]
            /\ UNCHANGED <<history, call, ex, queryHistory, srv, readOnlyMode>>
       ELSE IF ~srv.isAuthenticated
       THEN /\ turn' = [turn EXCEPT ![p] = EndTurn(Emit(NoteFailure(TurnIdle, "auth"), "error",
                                                        <<"Nao autenticado">>))]
            /\ UNCHANGED <<history, call, ex, queryHistory, srv, readOnlyMode>>
       ELSE /\ srv' = LazyInit(srv)
            /\ readOnlyMode' = IF srv.executor THEN readOnlyMode ELSE TRUE
            /\ LET h0 == IF srv.llmClient THEN history ELSE <<>>
                    w0 == [World(p) EXCEPT !.h = h0, !.s = LazyInit(srv),
                                           !.t = Emit(TurnIdle, "thinking", <<>>)]
               IN  Commit(p, CallChat(w0, text, "chat", useLocalCodex))
    /\ UNCHANGED <<provider, useLocalCodex, nOps, classifyVars, schemaVars, parserVars, connVars>>

\* the chat call the handler awaits takes its next step (token, response, refresh);
\* a call made on a Model Client that state.llmClient no longer refers to
\* (detached) pushes its reply to the history of that abandoned client
SrvChatEvent(p) ==
    /\ turn[p].pc \in {"chat", "summary"}
    /\ InFlight(call[p])
    /\ \E ev \in EventsAt(call[p]) :
         LET r == ChatStep(history, call[p], ev, provider)
             w == [World(p) EXCEPT !.h = IF call[p].detached THEN history ELSE r.h, !.c = r.c]
         IN  Commit(p, SrvResume(w, readOnlyMode, useLocalCodex))
    /\ UNCHANGED <<provider, useLocalCodex, nOps, srv, readOnlyMode, turnsStarted, classifyVars, schemaVars, parserVars, connVars>>

\* the database call of the awaited execute resolves with n rows
SrvDbReturns(p, n) ==
    /\ turn[p].pc \in {"exec", "direct"}
    /\ ex[p].pc = "db"
    /\ LET w == [World(p) EXCEPT !.x = ExecuteResolved(ex[p], n)]
       IN  Commit(p, SrvResume(w, readOnlyMode, useLocalCodex))
    /\ UNCHANGED <<provider, useLocalCodex, nOps, srv, readOnlyMode, turnsStarted, classifyVars, schemaVars, parserVars, connVars>>

\* the database call of the awaited execute rejects
SrvDbThrows(p, cause) ==
    /\ turn[p].pc \in {"exec", "direct"}
    /\ ex[p].pc = "db"
    /\ LET w == [World(p) EXCEPT !.x = ExecuteRejected(ex[p], ConnectorError(ex[p].mode, cause))]
       IN  Commit(p, SrvResume(w, readOnlyMode, useLocalCodex))
    /\ UNCHANGED <<provider, useLocalCodex, nOps, srv, readOnlyMode, turnsStarted, classifyVars, schemaVars, parserVars, connVars>>

\* query.ts 58-71: POST /api/query/read-only
PostReadOnly(enabled) ==
    /\ readOnlyMode' = IF srv.executor THEN enabled ELSE readOnlyMode
    /\ srv' = [srv EXCEPT !.reported = enabled]
    /\ UNCHANGED <<provider, useLocalCodex, nOps, history, call, ex, turn,
                   queryHistory, turnsStarted, classifyVars, schemaVars, parserVars, connVars>>

\* queries a client may post for direct execution; the first is an empty body
DirectSqls == {<<>>, <<"SELECT">>, <<"delete", "SP", "txt">>}

\* query.ts 9-23: POST /api/query/execute up to its await of executor.execute
PostExecute(p, sql) ==
    /\ turn[p].pc = "idle"
    /\ turnsStarted < MaxTurns
    /\ turnsStarted' = turnsStarted + 1
    /\ LET Refuse(type, msg) ==
               /\ turn' = [turn EXCEPT ![p] = EndTurn(Emit(TurnIdle, type, msg))]
               /\ UNCHANGED <<history, call, ex, queryHistory>>
       IN  IF ~srv.activeConnection THEN Refuse("http400", <<"Nenhum banco conectado">>)
           ELSE IF ~srv.executor THEN Refuse("http500", <<"Executor nao inicializado">>)
           ELSE IF sql = <<>> THEN Refuse("http400", <<"SQL e obrigatorio">>)
           ELSE LET w0 == [World(p) EXCEPT !.t = TurnIdle]
                    w1 == CallExecute(w0, sql, "direct", readOnlyMode)
                IN  Commit(p, IF w1.x.pc = "done" THEN PostExecuteAfter(w1) ELSE w1)
    /\ UNCHANGED <<provider, useLocalCodex, nOps, srv, readOnlyMode, classifyVars, schemaVars,
                   parserVars, connVars>>

\* query.ts 78-82: DELETE /api/query/history
DeleteHistory ==
    /\ queryHistory' = <<>>
    /\ UNCHANGED <<provider, useLocalCodex, nOps, srv, readOnlyMode, history, call, ex, turn,
                   turnsStarted, classifyVars, schemaVars, parserVars, connVars>>

\* connect requests in one run of SpecRoutes
MaxConnects == 2

\* chat() calls in flight on a Model Client that state.llmClient drops
Detach(calls) ==
    [p \in Callers |-> IF InFlight(calls[p]) THEN [calls[p] EXCEPT !.detached = TRUE] ELSE calls[p]]

\* connections.ts 46-67: POST /api/connections/:name/connect for a known name,
\* up to its first await: disconnect() of the active connection, or connect()
ConnectRoute ==
    /\ srv.connect = "idle"
    /\ srv.nConnects < MaxConnects
    /\ srv' = [srv EXCEPT !.nConnects = @ + 1,
                          !.connect = IF srv.activeConnection THEN "disconnect" ELSE "connect"]
    /\ UNCHANGED <<provider, useLocalCodex, nOps, readOnlyMode, history, call, ex, turn,
                   queryHistory, turnsStarted, classifyVars, schemaVars, parserVars, connVars>>

\* connections.ts 62-88: what the connect request awaits settles. A failed
\* disconnect is ignored; after connect() the new connector and a new, unmapped
\* SchemaEngine are stored and llmClient and executor are set to null (72-76);
\* then mapDatabase() is awaited (78); a failure goes to next(error)
ConnectSettles(ok) ==
    /\ srv.connect # "idle"
    /\ IF srv.connect = "disconnect"
       THEN /\ srv' = [srv EXCEPT !.connect = "connect"]
            /\ UNCHANGED <<history, call, readOnlyMode>>
       ELSE IF ~ok
       THEN /\ srv' = [srv EXCEPT !.connect = "idle"]
            /\ UNCHANGED <<history, call, readOnlyMode>>
       ELSE IF srv.connect = "connect"
       THEN /\ srv' = [srv EXCEPT !.connect = "map", !.activeConnection = TRUE,
                                  !.schemaEngine = "new", !.llmClient = FALSE,
                                  !.prompt = "none", !.executor = FALSE,
                                  !.reported = TRUE, !.sinceConnect = TRUE]
            /\ history' = <<>>
            /\ call' = Detach(call)
            /\ readOnlyMode' = TRUE
       ELSE /\ srv' = [srv EXCEPT !.connect = "idle", !.schemaEngine = "mapped"]
            /\ UNCHANGED <<history, call, readOnlyMode>>
    /\ UNCHANGED <<provider, useLocalCodex, nOps, ex, turn, queryHistory, turnsStarted,
                   classifyVars, schemaVars, parserVars, connVars>>

\* connections.ts 140-148, 187-193, 237-243: a login completes: the state is
\* authenticated and llmClient is a new LLMClient, on which no prompt is set
LoginCompletes ==
    /\ srv' = [srv EXCEPT !.isAuthenticated = TRUE, !.llmClient = TRUE, !.prompt = ""]
    /\ history' = <<>>
    /\ call' = Detach(call)
    /\ UNCHANGED <<provider, useLocalCodex, nOps, readOnlyMode, ex, turn, queryHistory,
                   turnsStarted, classifyVars, schemaVars, parserVars, connVars>>

ServerInit ==
    /\ provider \in {"openai", "anthropic"}
    /\ useLocalCodex \in BOOLEAN
    /\ srv \in {[SrvIdle EXCEPT !.activeConnection = connected,
                                !.schemaEngine = IF connected THEN "mapped" ELSE "null",
                                !.isAuthenticated = authenticated] :
                  connected \in BOOLEAN, authenticated \in BOOLEAN}
    /\ readOnlyMode = TRUE
    /\ history = <<>>
    /\ queryHistory = <<>>
    /\ call = [p \in Callers |-> CallIdle]
    /\ ex = [p \in Callers |-> ExIdle]
    /\ turn = [p \in Callers |-> TurnIdle]
    /\ turnsStarted = 0
    /\ nOps = 0
    /\ ClassifyIdle /\ ParserIdle /\ ConnIdle /\ SchemaIdle

ServerNext ==
    \/ \E p \in Callers, input \in WsInputs, text \in UserTexts : WsMessage(p, input, text)
    \/ \E p \in Callers : SrvChatEvent(p)
    \/ \E p \in Callers, n \in DbRowCounts : SrvDbReturns(p, n)
    \/ \E p \in Callers, cause \in DriverCauses : SrvDbThrows(p, cause)
    \/ \E enabled \in BOOLEAN : PostReadOnly(enabled)

-----------------------------------------------------------------------------
(* The REPL turn, repl.ts 105-260 (ChatREPL.processInput, sendResultToLLM) *)

\* repl.ts 230-260: showQueryResult, then sendResultToLLM
ReplShowAndSummarize(w, local) ==
    LET w1 == [w EXCEPT !.t = Emit(w.t, "result", <<>>)]
    IN  IF w.x.result.rows = 0
        THEN [w1 EXCEPT !.t = EndTurn(w1.t)]
        ELSE CallChat(NoteRowsToSend(w1, w.x.result), SummaryMessage, "summary", local)

\* repl.ts 251-259: the summary chat has settled
ReplAfterSummary(w) ==
    IF w.c.ok
    THEN [w EXCEPT !.t = EndTurn(Emit(w.t, "summary", AnswerText(w.c.content)))]
    ELSE [w EXCEPT !.t = EndTurn(w.t)]

\* repl.ts 206-227: the catch of processInput
ReplCatch(w, msg) == [w EXCEPT !.t = EndTurn(Emit(w.t, "error", msg))]

\* repl.ts 183-190: the execute of the corrected statement has returned
ReplAfterFixExecute(w0, local) ==
    LET w == NoteExecute(w0) IN
    IF w.x.thrown
    THEN [w EXCEPT !.t = EndTurn(Emit(w.t, "error", <<"Nao foi possivel corrigir: ">> \o w.x.driverMessage))]
    ELSE IF w.x.result.error # NoError
    THEN [w EXCEPT !.t = EndTurn(Emit(w.t, "error", <<"Erro persistente: ">> \o w.x.result.error))]
    ELSE ReplShowAndSummarize(w, local)

\* repl.ts 173-198: the correction chat has settled
ReplAfterFixChat(w, readOnly, local) ==
    IF ~w.c.ok
    THEN [w EXCEPT !.t = EndTurn(Emit(w.t, "error", <<"Nao foi possivel corrigir: ", w.c.error>>))]
    ELSE LET content == AnswerText(w.c.content)
             fixedSQL == extractSQL(content)
         IN  IF fixedSQL # <<>>
             THEN LET t1 == Emit(Emit(w.t, "text", <<"Tentando query corrigida:">>), "sql", fixedSQL)
                      w1 == CallExecute([w EXCEPT !.t = t1], fixedSQL, "fixexec", readOnly)
                  IN  IF w1.x.pc = "done" THEN ReplAfterFixExecute(w1, local) ELSE w1
             ELSE [w EXCEPT !.t = EndTurn(Emit(w.t, "text", content))]

\* repl.ts 156-202: the first execute has returned
ReplAfterExecute(w0, local) ==
    LET w == NoteExecute(w0) IN
    IF w.x.thrown THEN ReplCatch(w, w.x.driverMessage)
    ELSE IF w.x.result.error # NoError
    THEN LET w1 == [w EXCEPT !.t = [Emit(w.t, "error", <<"Erro SQL: ">> \o w.x.result.error)
                                      EXCEPT !.corrections = @ + 1]]
         IN  CallChat(w1, CorrectionMessage, "fixchat", local)
    ELSE ReplShowAndSummarize(w, local)

\* repl.ts 149-155: the spinner starts and execute is called
ReplExecute(w, sql, readOnly, local) ==
    LET w1 == CallExecute([w EXCEPT !.t = Emit(w.t, "executing", <<>>)], sql, "exec", readOnly)
    IN  IF w1.x.pc = "done" THEN ReplAfterExecute(w1, local) ELSE w1

\* repl.ts 114-147 and 203-205: the first chat has settled
ReplAfterChat(w, readOnly, local) ==
    IF ~w.c.ok THEN ReplCatch(w, <<w.c.error>>)
    ELSE LET content == AnswerText(w.c.content)
             sql == extractSQL(content)
         IN  IF sql # <<>>
             THEN LET rest == textWithoutSQL(content)
                      t1 == IF rest # <<>> THEN Emit(w.t, "text", rest) ELSE w.t
                      t2 == NoteBlocked([Emit(t1, "sql", sql) EXCEPT !.sql = sql], sql, readOnly)
                  IN  IF isDestructiveQuery(sql)
                      THEN IF readOnly
                           THEN [w EXCEPT !.t = EndTurn(Emit(t2, "warning", <<"Modo somente leitura ativo.">>))]
                           ELSE [w EXCEPT !.t = [t2 EXCEPT !.pc = "confirm"]]
                      ELSE ReplExecute([w EXCEPT !.t = t2], sql, readOnly, local)
             ELSE [w EXCEPT !.t = EndTurn(Emit(w.t, "text", content))]

\* repl.ts 140-147: the user has answered the confirmation prompt
ReplAfterConfirmation(w, confirmed, readOnly, local) ==
    IF ~confirmed
    THEN [w EXCEPT !.t = EndTurn(Emit(w.t, "cancelled", <<>>))]
    ELSE ReplExecute([w EXCEPT !.t = [w.t EXCEPT !.confirmed = w.t.sql]], w.t.sql, readOnly, local)

\* processInput resumes after the await it is suspended at
ReplResume(w0, readOnly, local) ==
    LET w == NoteSettled(w0) IN
    IF w.t.pc = "chat" /\ w.c.pc = "done" THEN ReplAfterChat(w, readOnly, local)
    ELSE IF w.t.pc = "fixchat" /\ w.c.pc = "done" THEN ReplAfterFixChat(w, readOnly, local)
    ELSE IF w.t.pc = "summary" /\ w.c.pc = "done" THEN ReplAfterSummary(w)
    ELSE IF w.t.pc = "exec" /\ w.x.pc = "done" THEN ReplAfterExecute(w, local)
    ELSE IF w.t.pc = "fixexec" /\ w.x.pc = "done" THEN ReplAfterFixExecute(w, local)
    ELSE w

Repl == "h1"

\* repl.ts 105-113: a line that is no command; processInput runs up to its first await
ReplInput(text) ==
    /\ turn[Repl].pc = "idle"
    /\ turnsStarted < MaxTurns
    /\ turnsStarted' = turnsStarted + 1
    /\ srv' = [srv EXCEPT !.sinceConnect = FALSE]
    /\ LET w0 == [World(Repl) EXCEPT !.t = Emit(TurnIdle, "thinking", <<>>)]
       IN  Commit(Repl, CallChat(w0, text, "chat", useLocalCodex))
    /\ UNCHANGED <<provider, useLocalCodex, nOps, readOnlyMode, classifyVars, schemaVars, parserVars, connVars>>

\* repl.ts 294-295, 548-578: the /reconnect command, between two turns:
\* disconnect, connect, mapDatabase, then setSystemPrompt on the same Model
\* Client; a failure of connect or mapDatabase is logged and changes nothing
ReplReconnect(ok) ==
    /\ turn[Repl].pc = "idle"
    /\ srv' = IF ok THEN [srv EXCEPT !.prompt = buildSystemPrompt(srv.schemaEngine),
                                     !.sinceConnect = TRUE]
                    ELSE srv
    /\ UNCHANGED <<provider, useLocalCodex, nOps, readOnlyMode, history, call, ex, turn,
                   queryHistory, turnsStarted, classifyVars, schemaVars, parserVars, connVars>>

ReplChatEvent ==
    /\ turn[Repl].pc \in {"chat", "fixchat", "summary"}
    /\ InFlight(call[Repl])
    /\ \E ev \in EventsAt(call[Repl]) :
         LET r == ChatStep(history, call[Repl], ev, provider)
             w == [World(Repl) EXCEPT !.h = r.h, !.c = r.c]
         IN  Commit(Repl, ReplResume(w, readOnlyMode, useLocalCodex))
    /\ UNCHANGED <<provider, useLocalCodex, nOps, srv, readOnlyMode, turnsStarted, classifyVars, schemaVars, parserVars, connVars>>

ReplConfirmation(confirmed) ==
    /\ turn[Repl].pc = "confirm"
    /\ Commit(Repl, ReplAfterConfirmation(World(Repl), confirmed, readOnlyMode, useLocalCodex))
    /\ UNCHANGED <<provider, useLocalCodex, nOps, srv, readOnlyMode, turnsStarted, classifyVars, schemaVars, parserVars, connVars>>

ReplDbReturns(n) ==
    /\ turn[Repl].pc \in {"exec", "fixexec"}
    /\ ex[Repl].pc = "db"
    /\ LET w == [World(Repl) EXCEPT !.x = ExecuteResolved(ex[Repl], n)]
       IN  Commit(Repl, ReplResume(w, readOnlyMode, useLocalCodex))
    /\ UNCHANGED <<provider, useLocalCodex, nOps, srv, readOnlyMode, turnsStarted, classifyVars, schemaVars, parserVars, connVars>>

ReplDbThrows(cause) ==
    /\ turn[Repl].pc \in {"exec", "fixexec"}
    /\ ex[Repl].pc = "db"
    /\ LET w == [World(Repl) EXCEPT
                    !.x = ExecuteRejected(ex[Repl], ConnectorError(ex[Repl].mode, cause))]
       IN  Commit(Repl, ReplResume(w, readOnlyMode, useLocalCodex))
    /\ UNCHANGED <<provider, useLocalCodex, nOps, srv, readOnlyMode, turnsStarted, classifyVars, schemaVars, parserVars, connVars>>

\* repl.ts 532-541: the /write command, typed at the prompt
ReplToggleWriteMode ==
    /\ turn[Repl].pc = "idle"
    /\ readOnlyMode' = ~readOnlyMode
    /\ UNCHANGED <<provider, useLocalCodex, nOps, srv, history, call, ex, turn,
                   queryHistory, turnsStarted, classifyVars, schemaVars, parserVars, connVars>>

\* index.ts 306-349 of the CLI: the REPL starts connected, with the schema
\* mapped, the Model Client holding the rendered prompt, and an executor
ReplState ==
    [SrvIdle EXCEPT !.activeConnection = TRUE, !.isAuthenticated = TRUE, !.llmClient = TRUE,
                    !.executor = TRUE, !.schemaEngine = "mapped", !.prompt = "schema"]

ReplInit ==
    /\ provider \in {"openai", "anthropic"}
    /\ useLocalCodex \in BOOLEAN
    /\ readOnlyMode = TRUE
    /\ history = <<>>
    /\ call = [p \in Callers |-> CallIdle]
    /\ ex = [p \in Callers |-> ExIdle]
    /\ nOps = 0
    /\ srv = ReplState
    /\ queryHistory = <<>>
    /\ turn = [p \in Callers |-> TurnIdle]
    /\ turnsStarted = 0
    /\ ClassifyIdle /\ ParserIdle /\ ConnIdle /\ SchemaIdle

ReplNext ==
    \/ \E text \in UserTexts : ReplInput(text)
    \/ ReplChatEvent
    \/ \E confirmed \in BOOLEAN : ReplConfirmation(confirmed)
    \/ \E n \in DbRowCounts : ReplDbReturns(n)
    \/ \E cause \in DriverCauses : ReplDbThrows(cause)
    \/ ReplToggleWriteMode
    \/ \E ok \in BOOLEAN : ReplReconnect(ok)

-----------------------------------------------------------------------------
(* SpecClassify: isDestructiveQuery applied to every bounded text *)

ClassifyInit ==
    /\ qText \in SeqsUpTo(SqlAlphabet, MaxSqlLen)
    /\ qCalled = FALSE
    /\ qResult = FALSE
    /\ ExecIdle /\ LLMIdle /\ TurnsIdle /\ SchemaIdle /\ ParserIdle /\ ConnIdle

Classify ==
    /\ ~qCalled
    /\ qCalled' = TRUE
    /\ qResult' = isDestructiveQuery(qText)
    /\ UNCHANGED <<qText, execVars, llmVars, turnVars, schemaVars, parserVars, connVars>>

ClassifyNext == Classify

-----------------------------------------------------------------------------
(* SchemaEngine: mapDatabase and findRelatedTables (schema-engine.ts)       *)
(* A table is named by its key `${schema}.${name}`.                          *)

MaxFkRows == 3
MaxDepth == 2

TableKeys == {"s.a", "s.b", "s.c"}
\* the order of the tables query (ORDER BY table_schema, table_name)
TableOrder == <<"s.a", "s.b", "s.c">>

\* a row of the foreign-key query (schema-engine.ts 75-82, 158-173)
FKRow(table, column, refTable, refColumn) ==
    [table |-> table, column |-> column, refTable |-> refTable, refColumn |-> refColumn]

FKRows == {FKRow(t, "c", r, "id") : t \in TableKeys, r \in TableKeys}

\* schema-engine.ts 199-207: the ForeignKey entries pushed to fkMap under key
RECURSIVE fkMap(_, _)
fkMap(rows, key) ==
    IF rows = <<>> THEN <<>>
    ELSE LET fk == Head(rows)
             fkInfo == [column |-> fk.column, referencedTable |-> fk.refTable,
                        referencedColumn |-> fk.refColumn]
         IN  (IF fk.table = key THEN <<fkInfo>> ELSE <<>>) \o fkMap(Tail(rows), key)

\* schema-engine.ts 209-217: the reversed entries pushed to referencedByMap under key
RECURSIVE referencedByMap(_, _)
referencedByMap(rows, key) ==
    IF rows = <<>> THEN <<>>
    ELSE LET fk == Head(rows)
             reverseFK == [column |-> fk.refColumn, referencedTable |-> fk.table,
                           referencedColumn |-> fk.column]
         IN  (IF fk.refTable = key THEN <<reverseFK>> ELSE <<>>)
             \o referencedByMap(Tail(rows), key)

\* schema-engine.ts 114-126: the rows of the tables query, in its order; the
\* join with pg_class is on relname alone, so a table whose name also exists
\* in another schema (twice) comes back once per pg_class row
RECURSIVE TableRows(_, _, _)
TableRows(keys, twice, i) ==
    IF i > Len(TableOrder) THEN <<>>
    ELSE LET key == TableOrder[i] IN
         (IF key \in keys THEN <<key>> ELSE <<>>)
         \o (IF key \in keys /\ key \in twice THEN <<key>> ELSE <<>>)
         \o TableRows(keys, twice, i + 1)

\* schema-engine.ts 278-301: one TableInfo per row of the tables query
mapDatabase(rows, fkRows) ==
    [i \in 1..Len(rows) |->
        [key |-> rows[i],
         foreignKeys |-> fkMap(fkRows, rows[i]),
         referencedBy |-> referencedByMap(fkRows, rows[i])]]

\* schema-engine.ts 343-346: tableMap.has(key)
InTableMap(tables, key) == \E i \in 1..Len(tables) : tables[i].key = key

\* schema-engine.ts 343-346: tableMap.get(key), the last table set under the key
TableMapGet(tables, key) ==
    tables[CHOOSE i \in 1..Len(tables) :
              /\ tables[i].key = key
              /\ \A j \in 1..Len(tables) : tables[j].key = key => j <= i]

\* a variant of InitialVisited without the visited.add(startKey) of line 341
InitialVisited_Empty(startKey) == {}

\* schema-engine.ts 335, 341
InitialVisited(startKey) == {startKey}

\* schema-engine.ts 361-375: the two for loops over the edges of one table;
\* the visited set and the queue after them
RECURSIVE VisitEdges(_, _, _, _)
VisitEdges(edges, visited, queue, nextDepth) ==
    IF edges = <<>> THEN [visited |-> visited, queue |-> queue]
    ELSE LET refKey == Head(edges).referencedTable IN
         IF refKey \notin visited
         THEN VisitEdges(Tail(edges), visited \cup {refKey},
                         Append(queue, [key |-> refKey, currentDepth |-> nextDepth]), nextDepth)
         ELSE VisitEdges(Tail(edges), visited, queue, nextDepth)

\* a variant of WhileQueue without the depth test of line 357
RECURSIVE WhileQueue_NoDepthLimit(_, _, _, _, _)
WhileQueue_NoDepthLimit(tables, depth, queue, visited, result) ==
    IF queue = <<>> THEN result
    ELSE LET item == Head(queue)
             known == InTableMap(tables, item.key)
             result1 == IF item.currentDepth > 0 /\ known
                        THEN Append(result, TableMapGet(tables, item.key))
                        ELSE result
         IN  IF ~known
             THEN WhileQueue_NoDepthLimit(tables, depth, Tail(queue), visited, result1)
             ELSE LET table == TableMapGet(tables, item.key)
                      v == VisitEdges(table.foreignKeys \o table.referencedBy, visited,
                                      Tail(queue), item.currentDepth + 1)
                  IN  WhileQueue_NoDepthLimit(tables, depth, v.queue, v.visited, result1)

\* schema-engine.ts 348-376: the while loop
RECURSIVE WhileQueue(_, _, _, _, _)
WhileQueue(tables, depth, queue, visited, result) ==
    IF queue = <<>> THEN result
    ELSE LET item == Head(queue)
             known == InTableMap(tables, item.key)
             result1 == IF item.currentDepth > 0 /\ known
                        THEN Append(result, TableMapGet(tables, item.key))
                        ELSE result
         IN  IF item.currentDepth >= depth \/ ~known
             THEN WhileQueue(tables, depth, Tail(queue), visited, result1)
             ELSE LET table == TableMapGet(tables, item.key)
                      v == VisitEdges(table.foreignKeys \o table.referencedBy, visited,
                                      Tail(queue), item.currentDepth + 1)
                  IN  WhileQueue(tables, depth, v.queue, v.visited, result1)

\* schema-engine.ts 327-379
findRelatedTables(isMapped, tables, startKey, depth) ==
    IF ~isMapped THEN <<>>
    ELSE WhileQueue(tables, depth, <<[key |-> startKey, currentDepth |-> 0]>>,
                    InitialVisited(startKey), <<>>)

\* the catalog as the queries of mapDatabase return it
SchemaInit ==
    /\ catTables \in {TableRows(keys, twice, 1) : keys \in SUBSET TableKeys, twice \in SUBSET TableKeys}
    /\ catFks \in SeqsUpTo(FKRows, MaxFkRows)
    /\ EngineIdle
    /\ ClassifyIdle /\ ParserIdle /\ ConnIdle /\ ExecIdle /\ LLMIdle /\ TurnsIdle

\* schema-engine.ts 101-312: a call whose queries all succeed, with nothing
\* else running between its awaits
MapDatabase ==
    /\ ~mapped
    /\ mapped' = TRUE
    /\ schemaMap' = mapDatabase(catTables, catFks)
    /\ lastReturned' = [some |-> TRUE, tables |-> schemaMap']
    /\ UNCHANGED <<catTables, catFks, findCalled, findStart, findDepth, related, mapCall, seen>>
    /\ UNCHANGED <<classifyVars, execVars, llmVars, turnVars, parserVars, connVars>>

\* schema-engine.ts 327-379, called with a table key and a depth
FindRelatedTables(startKey, depth) ==
    /\ ~findCalled
    /\ findCalled' = TRUE
    /\ findStart' = startKey
    /\ findDepth' = depth
    /\ related' = findRelatedTables(mapped, schemaMap, startKey, depth)
    /\ UNCHANGED <<catTables, catFks, mapped, schemaMap, mapCall, lastReturned, seen>>
    /\ UNCHANGED <<classifyVars, execVars, llmVars, turnVars, parserVars, connVars>>

SchemaNext ==
    \/ MapDatabase
    \/ \E startKey \in TableKeys, depth \in 0..MaxDepth : FindRelatedTables(startKey, depth)

-----------------------------------------------------------------------------
(* SchemaEngine: mapDatabase call by call, query by query, next to readers  *)
(* of getSchemaMap and to a catalog that other sessions change              *)

\* schema-engine.ts 101-183: the catalog queries of mapDatabase, in the order
\* in which they are awaited
MapQueries ==
    <<"current_database", "version", "tables", "columns", "primaryKeys", "foreignKeys", "indexes">>

\* the catalogs a database can show while it is being mapped again
RemapTables == {TableRows(keys, {}, 1) : keys \in SUBSET {"s.a", "s.b"}}
RemapFks == {<<>>, <<FKRow("s.a", "c", "s.b", "id")>>}

\* a variant of mapDatabaseResume that builds the graph in place: it stores
\* the tables as soon as the tables query has returned
mapDatabaseResume_InPlace(stored, c, ok, tabs, fks) ==
    IF ~ok
    THEN [stored |-> stored, call |-> [MapCallIdle EXCEPT !.outcome = "failed"]]
    ELSE LET c1 == [c EXCEPT !.tablesResult = IF c.pc = "tables" THEN tabs ELSE @,
                             !.fkResult = IF c.pc = "foreignKeys" THEN fks ELSE @]
             i == CHOOSE k \in 1..Len(MapQueries) : MapQueries[k] = c.pc
         IN  IF i = Len(MapQueries)
             THEN [stored |-> [some |-> TRUE,
                               tables |-> mapDatabase(c1.tablesResult, c1.fkResult)],
                   call |-> [MapCallIdle EXCEPT !.outcome = "returned"]]
             ELSE [stored |-> IF c.pc = "tables"
                              THEN [some |-> TRUE, tables |-> mapDatabase(tabs, <<>>)]
                              ELSE stored,
                   call |-> [c1 EXCEPT !.pc = MapQueries[i + 1]]]

\* schema-engine.ts 101-312: the continuation of mapDatabase after the query
\* it awaits has settled.  A rejected query rejects the call (no try/catch in
\* mapDatabase); the rows of the tables and of the foreign-key query are kept
\* in locals; this.schemaMap is assigned once, after the last query (303-309)
mapDatabaseResume(stored, c, ok, tabs, fks) ==
    IF ~ok
    THEN [stored |-> stored, call |-> [MapCallIdle EXCEPT !.outcome = "failed"]]
    ELSE LET c1 == [c EXCEPT !.tablesResult = IF c.pc = "tables" THEN tabs ELSE @,
                             !.fkResult = IF c.pc = "foreignKeys" THEN fks ELSE @]
             i == CHOOSE k \in 1..Len(MapQueries) : MapQueries[k] = c.pc
         IN  IF i = Len(MapQueries)
             THEN [stored |-> [some |-> TRUE,
                               tables |-> mapDatabase(c1.tablesResult, c1.fkResult)],
                   call |-> [MapCallIdle EXCEPT !.outcome = "returned"]]
             ELSE [stored |-> stored, call |-> [c1 EXCEPT !.pc = MapQueries[i + 1]]]

RemapInit ==
    /\ catTables \in RemapTables
    /\ catFks \in RemapFks
    /\ EngineIdle
    /\ ClassifyIdle /\ ParserIdle /\ ConnIdle /\ ExecIdle /\ LLMIdle /\ TurnsIdle

\* schema-engine.ts 101-104: mapDatabase() is called and awaits its first query
MapDatabaseCall ==
    /\ mapCall.pc = "idle"
    /\ mapCall' = [MapCallIdle EXCEPT !.pc = MapQueries[1]]
    /\ UNCHANGED <<catTables, catFks, mapped, schemaMap, findCalled, findStart, findDepth,
                   related, lastReturned, seen>>
    /\ UNCHANGED <<classifyVars, execVars, llmVars, turnVars, parserVars, connVars>>

\* the awaited query settles: with its rows (ok) or with an error
MapQuerySettles(ok) ==
    /\ mapCall.pc # "idle"
    /\ LET r == mapDatabaseResume([some |-> mapped, tables |-> schemaMap], mapCall, ok,
                                  catTables, catFks)
       IN  /\ mapped' = r.stored.some
           /\ schemaMap' = r.stored.tables
           /\ mapCall' = r.call
           /\ lastReturned' = IF r.call.outcome = "returned" THEN r.stored ELSE lastReturned
    /\ UNCHANGED <<catTables, catFks, findCalled, findStart, findDepth, related, seen>>
    /\ UNCHANGED <<classifyVars, execVars, llmVars, turnVars, parserVars, connVars>>

\* schema-engine.ts 314-316: getSchemaMap()
GetSchemaMap ==
    /\ seen' = [called |-> TRUE, during |-> mapCall.pc, null |-> ~mapped, tables |-> schemaMap]
    /\ UNCHANGED <<catTables, catFks, mapped, schemaMap, findCalled, findStart, findDepth,
                   related, mapCall, lastReturned>>
    /\ UNCHANGED <<classifyVars, execVars, llmVars, turnVars, parserVars, connVars>>

\* another session creates or drops a table or a foreign key
CatalogChanges ==
    /\ catTables' \in RemapTables
    /\ catFks' \in RemapFks
    /\ <<catTables', catFks'>> # <<catTables, catFks>>
    /\ UNCHANGED <<mapped, schemaMap, findCalled, findStart, findDepth, related,
                   mapCall, lastReturned, seen>>
    /\ UNCHANGED <<classifyVars, execVars, llmVars, turnVars, parserVars, connVars>>

RemapNext ==
    \/ MapDatabaseCall
    \/ \E ok \in BOOLEAN : MapQuerySettles(ok)
    \/ GetSchemaMap
    \/ CatalogChanges

-----------------------------------------------------------------------------
(* The stream parsers of llm.ts: extractTextFromSSE (496-559) and            *)
(* extractTextFromAnthropicSSE (563-629).  A body is the sequence of its     *)
(* lines; a line is what JSON.parse makes of it; a text is the sequence of   *)
(* its characters, so that '' is <<>> and += is \o.                          *)

MaxSseLines == 3

\* a number that a usage object may lack
Absent == -1
\* llm.ts 531-533, 587, 596: x ?? 0
OrZero(x) == IF x = Absent THEN 0 ELSE x

NoUsage == [given |-> FALSE, input |-> Absent, output |-> Absent, total |-> Absent]
Usage(input, output, total) == [given |-> TRUE, input |-> input, output |-> output, total |-> total]

SseLine(type, sub, text, parts, usage) ==
    [type |-> type, sub |-> sub, text |-> text, parts |-> parts, usage |-> usage]

SseTexts == {<<"a">>, <<"b">>}

\* the lines of the first provider's stream: text deltas, the final event
\* (its assistant message holds zero to two output_text parts) and lines that
\* the parsers skip (no 'data: ' prefix, [DONE], not JSON, another event type)
OpenAILines ==
    {SseLine("response.output_text.delta", "", t, <<>>, NoUsage) : t \in SseTexts}
    \cup {SseLine("response.completed", "", <<>>, ps, Usage(3, 5, Absent)) :
            ps \in SeqsUpTo({<<>>, <<"a">>}, 2)}
    \cup {SseLine("response.done", "", <<>>, ps, NoUsage) : ps \in SeqsUpTo({<<>>, <<"a">>}, 2)}
    \cup {SseLine("skipped", "", <<>>, <<>>, NoUsage)}

\* the lines of the second provider's stream
AnthropicLines ==
    {SseLine("content_block_delta", sub, t, <<>>, NoUsage) :
        sub \in {"text_delta", "input_json_delta"}, t \in SseTexts}
    \cup {SseLine("message_start", "", <<>>, <<>>, u) : u \in {NoUsage, Usage(3, 1, Absent)}}
    \cup {SseLine("message_delta", "", <<>>, <<>>, u) : u \in {NoUsage, Usage(Absent, 5, Absent)}}
    \cup {SseLine("skipped", "", <<>>, <<>>, NoUsage)}

\* a body that is one JSON object, the non-streaming response: its text blocks
JsonBodies ==
    {<<SseLine("json", "", <<>>, blocks, u)>> :
        blocks \in SeqsUpTo(SseTexts, 2), u \in {NoUsage, Usage(3, 5, Absent)}}

\* a concatenation of texts
RECURSIVE Concat(_)
Concat(texts) == IF texts = <<>> THEN <<>> ELSE Head(texts) \o Concat(Tail(texts))

\* llm.ts 510-524: content = part.text for each output_text part in turn
RECURSIVE AssignEach(_, _)
AssignEach(content, parts) ==
    IF parts = <<>> THEN content ELSE AssignEach(Head(parts), Tail(parts))

\* llm.ts 500-540: the first loop of extractTextFromSSE, over the final events
RECURSIVE CompletedPass(_, _)
CompletedPass(lines, acc) ==
    IF lines = <<>> THEN acc
    ELSE LET event == Head(lines)
             u == event.usage
         IN  IF event.type \in {"response.completed", "response.done"}
             THEN CompletedPass(Tail(lines),
                    [content |-> AssignEach(acc.content, event.parts),
                     usage |-> IF u.given
                               THEN [input |-> OrZero(u.input), output |-> OrZero(u.output),
                                     total |-> IF u.total = Absent
                                               THEN OrZero(u.input) + OrZero(u.output)
                                               ELSE u.total]
                               ELSE acc.usage])
             ELSE CompletedPass(Tail(lines), acc)

\* llm.ts 544-555: the second loop, over the text deltas
RECURSIVE DeltaPass(_)
DeltaPass(lines) ==
    IF lines = <<>> THEN <<>>
    ELSE (IF Head(lines).type = "response.output_text.delta" THEN Head(lines).text ELSE <<>>)
         \o DeltaPass(Tail(lines))

\* llm.ts 496-559
extractTextFromSSE(data) ==
    LET first == CompletedPass(data, [content |-> <<>>,
                                      usage |-> [input |-> 0, output |-> 0, total |-> 0]])
    IN  [content |-> IF first.content = <<>> THEN DeltaPass(data) ELSE first.content,
         usage |-> first.usage]

\* a variant of AnthropicEvent in which a text delta replaces the content
AnthropicEvent_Overwrite(acc, event) ==
    [content |-> IF event.type = "content_block_delta" /\ event.sub = "text_delta"
                 THEN event.text ELSE acc.content,
     input |-> IF event.type = "message_start" /\ event.usage.given
               THEN OrZero(event.usage.input) ELSE acc.input,
     output |-> IF event.type = "message_delta" /\ event.usage.given
                THEN OrZero(event.usage.output) ELSE acc.output]

\* llm.ts 572-598: what one line of the stream does to content and usage
AnthropicEvent(acc, event) ==
    [content |-> IF event.type = "content_block_delta" /\ event.sub = "text_delta"
                 THEN acc.content \o event.text ELSE acc.content,
     input |-> IF event.type = "message_start" /\ event.usage.given
               THEN OrZero(event.usage.input) ELSE acc.input,
     output |-> IF event.type = "message_delta" /\ event.usage.given
                THEN OrZero(event.usage.output) ELSE acc.output]

\* llm.ts 567-602: the loop over the lines
RECURSIVE AnthropicPass(_, _)
AnthropicPass(lines, acc) ==
    IF lines = <<>> THEN acc ELSE AnthropicPass(Tail(lines), AnthropicEvent(acc, Head(lines)))

\* llm.ts 606: JSON.parse(sseData) succeeds on a body that is one JSON object
IsJsonBody(data) == Len(data) = 1 /\ data[1].type = "json"

\* llm.ts 563-629
extractTextFromAnthropicSSE(data) ==
    LET streamed == AnthropicPass(data, [content |-> <<>>, input |-> 0, output |-> 0])
        parsed == data[1]
        final == IF streamed.content = <<>> /\ IsJsonBody(data)
                 THEN [content |-> streamed.content \o Concat(parsed.parts),
                       input |-> IF parsed.usage.given
                                 THEN OrZero(parsed.usage.input) ELSE streamed.input,
                       output |-> IF parsed.usage.given
                                  THEN OrZero(parsed.usage.output) ELSE streamed.output]
                 ELSE streamed
    IN  [content |-> final.content,
         usage |-> [input |-> final.input, output |-> final.output,
                    total |-> final.input + final.output]]

SseInit ==
    /\ sseData \in SeqsUpTo(OpenAILines, MaxSseLines) \cup SeqsUpTo(AnthropicLines, MaxSseLines)
                     \cup JsonBodies
    /\ sseParsed = [by |-> "none", content |-> <<>>,
                    usage |-> [input |-> 0, output |-> 0, total |-> 0]]
    /\ answerText = <<>>
    /\ extracted = [called |-> FALSE, sql |-> <<>>]
    /\ ClassifyIdle /\ SchemaIdle /\ ExecIdle /\ LLMIdle /\ TurnsIdle /\ ConnIdle

\* llm.ts 910: the first provider's response body is parsed
ExtractTextFromSSE ==
    /\ sseParsed.by = "none"
    /\ LET r == extractTextFromSSE(sseData) IN
         sseParsed' = [by |-> "openai", content |-> r.content, usage |-> r.usage]
    /\ UNCHANGED <<sseData, answerText, extracted>>
    /\ UNCHANGED <<classifyVars, schemaVars, execVars, llmVars, turnVars, connVars>>

\* llm.ts 815: the second provider's response body is parsed
ExtractTextFromAnthropicSSE ==
    /\ sseParsed.by = "none"
    /\ LET r == extractTextFromAnthropicSSE(sseData) IN
         sseParsed' = [by |-> "anthropic", content |-> r.content, usage |-> r.usage]
    /\ UNCHANGED <<sseData, answerText, extracted>>
    /\ UNCHANGED <<classifyVars, schemaVars, execVars, llmVars, turnVars, connVars>>

SseNext ==
    \/ ExtractTextFromSSE
    \/ ExtractTextFromAnthropicSSE

-----------------------------------------------------------------------------
(* extractSQL on answers put together from fenced blocks and lines           *)

MaxPieces == 3

\* what a block or a line of an answer holds
PieceContents ==
    {<<>>, <<"SELECT", "SP", "txt">>, <<"txt">>, <<"delete", "SP", "txt", "SEMI">>}

\* the pieces of an answer: a fenced block tagged sql, a fenced block without a
\* tag, a line of text (possibly blank), a fence on a line of its own
AnswerPieces ==
    {<<"FENCE", "sql", "NL">> \o c \o <<"NL", "FENCE">> : c \in PieceContents}
    \cup {<<"FENCE", "NL">> \o c \o <<"NL", "FENCE">> : c \in PieceContents}
    \cup PieceContents
    \cup {<<"FENCE">>}

\* executor.ts 34: the answers handed to extractSQL, their pieces on lines of
\* their own
ExtractInit ==
    /\ answerText \in {JoinLines(ps) : ps \in SeqsUpTo(AnswerPieces, MaxPieces)}
    /\ extracted = [called |-> FALSE, sql |-> <<>>]
    /\ sseData = <<>>
    /\ sseParsed = [by |-> "none", content |-> <<>>,
                    usage |-> [input |-> 0, output |-> 0, total |-> 0]]
    /\ ClassifyIdle /\ SchemaIdle /\ ExecIdle /\ LLMIdle /\ TurnsIdle /\ ConnIdle

\* executor.ts 34-78
ExtractSQL ==
    /\ ~extracted.called
    /\ extracted' = [called |-> TRUE, sql |-> extractSQL(answerText)]
    /\ UNCHANGED <<answerText, sseData, sseParsed>>
    /\ UNCHANGED <<classifyVars, schemaVars, execVars, llmVars, turnVars, connVars>>

ExtractNext == ExtractSQL

-----------------------------------------------------------------------------
(* Specifications *)

SpecClassify == ClassifyInit /\ [][ClassifyNext]_vars

SpecExec == ExecInit /\ [][ExecNext]_vars

SpecLLM == LLMInit /\ [][LLMNext]_vars

SpecServer == ServerInit /\ [][ServerNext]_vars

SpecRepl == ReplInit /\ [][ReplNext]_vars

(* SpecRoutes: the server from its start, with its connect, login and query
   routes; one socket handler (h1) and one direct execution (h2) at a time,
   the Model Client reached through the local codex *)
RoutesInit ==
    /\ provider = "openai"
    /\ useLocalCodex = TRUE
    /\ srv \in {[SrvIdle EXCEPT !.isAuthenticated = authenticated] : authenticated \in BOOLEAN}
    /\ readOnlyMode = TRUE
    /\ history = <<>>
    /\ queryHistory = <<>>
    /\ call = [p \in Callers |-> CallIdle]
    /\ ex = [p \in Callers |-> ExIdle]
    /\ turn = [p \in Callers |-> TurnIdle]
    /\ turnsStarted = 0
    /\ nOps = 0
    /\ ClassifyIdle /\ ParserIdle /\ ConnIdle /\ SchemaIdle

RoutesNext ==
    \/ \E input \in WsInputs, text \in UserTexts : WsMessage("h1", input, text)
    \/ SrvChatEvent("h1")
    \/ \E p \in Callers, n \in DbRowCounts : SrvDbReturns(p, n)
    \/ \E p \in Callers, cause \in DriverCauses : SrvDbThrows(p, cause)
    \/ \E sql \in DirectSqls : PostExecute("h2", sql)
    \/ \E enabled \in BOOLEAN : PostReadOnly(enabled)
    \/ DeleteHistory
    \/ ConnectRoute
    \/ \E ok \in BOOLEAN : ConnectSettles(ok)
    \/ LoginCompletes

SpecRoutes == RoutesInit /\ [][RoutesNext]_vars

(* SpecHistory: a connected, authenticated server that has served turns
   before, so that its query history holds entries of earlier executions;
   chat turns on h1, direct executions on h2, deletions of the history *)

\* numbers of executions before the run starts
PriorCounts == {0, QUERY_HISTORY_LIMIT - 1, QUERY_HISTORY_LIMIT}

\* the history after n executions, newest first; the k-th returned k rows
PriorQueries(n) ==
    [i \in 1..n |-> [sql |-> <<"SELECT">>, rowCount |-> n + 1 - i, error |-> NoError]]

HistoryInit ==
    /\ provider = "openai"
    /\ useLocalCodex = TRUE
    /\ srv = [SrvIdle EXCEPT !.activeConnection = TRUE, !.isAuthenticated = TRUE,
                             !.llmClient = TRUE, !.executor = TRUE,
                             !.schemaEngine = "mapped", !.prompt = "schema"]
    /\ readOnlyMode \in BOOLEAN
    /\ history = <<>>
    /\ queryHistory \in {PriorQueries(n) : n \in PriorCounts}
    /\ call = [p \in Callers |-> CallIdle]
    /\ ex = [p \in Callers |-> ExIdle]
    /\ turn = [p \in Callers |-> TurnIdle]
    /\ turnsStarted = 0
    /\ nOps = 0
    /\ ClassifyIdle /\ ParserIdle /\ ConnIdle /\ SchemaIdle

HistoryNext ==
    \/ \E text \in UserTexts : WsMessage("h1", "chat", text)
    \/ SrvChatEvent("h1")
    \/ \E p \in Callers, n \in DbRowCounts : SrvDbReturns(p, n)
    \/ \E p \in Callers, cause \in DriverCauses : SrvDbThrows(p, cause)
    \/ \E sql \in DirectSqls : PostExecute("h2", sql)
    \/ DeleteHistory

SpecHistory == HistoryInit /\ [][HistoryNext]_vars

\* every Model Client call and every database call that a handler awaits
\* eventually resolves or rejects
SrvSettles(p) ==
    \/ SrvChatEvent(p)
    \/ \E n \in DbRowCounts : SrvDbReturns(p, n)
    \/ \E cause \in DriverCauses : SrvDbThrows(p, cause)

\* the fair specifications follow a bounded number of turns to their end
MaxLiveTurns == 1

ServerLiveNext ==
    \/ \E p \in Callers, input \in WsInputs, text \in UserTexts :
            turnsStarted < MaxLiveTurns /\ WsMessage(p, input, text)
    \/ \E p \in Callers : SrvChatEvent(p)
    \/ \E p \in Callers, n \in DbRowCounts : SrvDbReturns(p, n)
    \/ \E p \in Callers, cause \in DriverCauses : SrvDbThrows(p, cause)
    \/ \E enabled \in BOOLEAN : PostReadOnly(enabled)

SpecServerLive ==
    ServerInit /\ [][ServerLiveNext]_vars /\ \A p \in Callers : WF_vars(SrvSettles(p))

\* the same for the REPL, whose user also answers the confirmation prompt
ReplSettles ==
    \/ ReplChatEvent
    \/ \E confirmed \in BOOLEAN : ReplConfirmation(confirmed)
    \/ \E n \in DbRowCounts : ReplDbReturns(n)
    \/ \E cause \in DriverCauses : ReplDbThrows(cause)

ReplLiveNext ==
    \/ \E text \in UserTexts : turnsStarted < MaxLiveTurns /\ ReplInput(text)
    \/ ReplChatEvent
    \/ \E confirmed \in BOOLEAN : ReplConfirmation(confirmed)
    \/ \E n \in DbRowCounts : ReplDbReturns(n)
    \/ \E cause \in DriverCauses : ReplDbThrows(cause)
    \/ ReplToggleWriteMode
    \/ \E ok \in BOOLEAN : ReplReconnect(ok)

SpecReplLive == ReplInit /\ [][ReplLiveNext]_vars /\ WF_vars(ReplSettles)

SpecSchema == SchemaInit /\ [][SchemaNext]_vars

SpecRemap == RemapInit /\ [][RemapNext]_vars

SpecSSE == SseInit /\ [][SseNext]_vars

SpecExtract == ExtractInit /\ [][ExtractNext]_vars


-----------------------------------------------------------------------------
(* How PostgreSQL reads a text: comments and string literals are skipped,   *)
(* a comment separates words, block comments nest, statements end at ;      *)

\* TRUE when the scan from position i finds a statement whose first word is a
\* destructive keyword. mode is "code", "line" (after --), "block" (inside
\* depth open block comments) or "str" (inside '...'); atStart says that no
\* token of the current statement has been read yet.
RECURSIVE DbScan(_, _, _, _, _)
DbScan(s, i, mode, depth, atStart) ==
    IF i > Len(s) THEN FALSE
    ELSE LET tok == s[i] IN
         IF mode = "line"
         THEN DbScan(s, i + 1, IF tok = "NL" THEN "code" ELSE "line", 0, atStart)
         ELSE IF mode = "block"
         THEN IF tok = "BOPEN" THEN DbScan(s, i + 1, "block", depth + 1, atStart)
              ELSE IF tok = "BCLOSE"
              THEN DbScan(s, i + 1, IF depth = 1 THEN "code" ELSE "block", depth - 1, atStart)
              ELSE DbScan(s, i + 1, "block", depth, atStart)
         ELSE IF mode = "str"
         THEN DbScan(s, i + 1, IF tok = "QUOTE" THEN "code" ELSE "str", 0, FALSE)
         ELSE IF tok = "DASH2" THEN DbScan(s, i + 1, "line", 0, atStart)
         ELSE IF tok = "BOPEN" THEN DbScan(s, i + 1, "block", 1, atStart)
         ELSE IF tok = "QUOTE" THEN DbScan(s, i + 1, "str", 0, FALSE)
         ELSE IF tok = "SEMI" THEN DbScan(s, i + 1, "code", 0, TRUE)
         ELSE IF tok \in SpaceTokens THEN DbScan(s, i + 1, "code", 0, atStart)
         ELSE IF /\ atStart
                 /\ ToUpperCase(tok) \in DESTRUCTIVE_KEYWORDS
                 /\ (i = Len(s) \/ s[i + 1] \notin WordTokens)
         THEN TRUE
         ELSE DbScan(s, i + 1, "code", 0, FALSE)

DbStatementBeginsDestructive(s) == DbScan(s, 1, "code", 0, TRUE)

-----------------------------------------------------------------------------
(* Properties *)

HasEvent(t, type) == \E i \in 1..Len(t.events) : t.events[i].type = type

EventTypes(t) == [i \in 1..Len(t.events) |-> t.events[i].type]

\* C1: whenever execute is called while read-only mode is on and the statement is
\* classified destructive, the call has returned at once with a result whose error
\* is set, with no rows and rowCount 0, and neither db.query nor db.readOnlyQuery
\* was invoked for it.
C1_ReadOnlyRefusesDestructive ==
    \A p \in Callers :
        (ex[p].pc # "idle" /\ ex[p].roAtCall /\ isDestructiveQuery(ex[p].sql))
        => /\ ex[p].pc = "done"
           /\ ex[p].result.error # NoError
           /\ ex[p].result.rows = 0
           /\ ex[p].result.rowCount = 0
           /\ ex[p].nQuery = 0
           /\ ex[p].nReadOnlyQuery = 0

\* a refused multi-statement text, while the other caller's statement is at the database
C1_Witness ==
    /\ ex["h1"].pc = "done"
    /\ ex["h1"].roAtCall
    /\ ex["h1"].sql = <<"SELECT", "SEMI", "NL", "DROP">>
    /\ ex["h1"].result.error = ReadOnlyBlockedMessage
    /\ ex["h2"].pc = "db"

\* C2: in a turn whose extracted statement is destructive while read-only mode is
\* on, the turn warns and stops: no "executing" event, no call of execute, no
\* correction, no summary.
C2_BlockedTurnWarnsAndStops ==
    \A p \in Callers :
        turn[p].blocked
        => /\ ~HasEvent(turn[p], "executing")
           /\ turn[p].nExec = 0
           /\ turn[p].corrections = 0
           /\ turn[p].nChat = 1
           /\ ~HasEvent(turn[p], "summary")
           /\ HasEvent(turn[p], "warning")

\* C3: a destructive statement is at the database only if read-only mode was off
\* at the call and the user confirmed that very statement in this turn; this
\* holds for the corrected statement of the correction round too.
C3_DestructiveOnlyWhenAuthorized ==
    \A p \in Callers :
        (ex[p].pc = "db" /\ isDestructiveQuery(ex[p].sql))
        => /\ ~ex[p].roAtCall
           /\ turn[p].confirmed = ex[p].sql

\* C4: isDestructiveQuery returns true for every text in which a statement, as
\* the database reads it outside comments and string literals, begins with a
\* destructive keyword.
C4_NoFalseNegative ==
    (qCalled /\ DbStatementBeginsDestructive(qText)) => qResult

\* C5: the history never holds more than MAX_HISTORY_MESSAGES entries, whatever
\* sequence of chat, addToHistory and clearHistory ran, the push of the assistant
\* reply included.
C5_HistoryBounded == Len(history) <= MAX_HISTORY_MESSAGES

\* C6: a turn whose first execution failed at the database made exactly one
\* correction round-trip; no turn calls execute more than twice or chat more
\* than three times.
C6_OneCorrectionRound ==
    \A p \in Callers :
        /\ turn[p].nExec <= 2
        /\ turn[p].nChat <= 3
        /\ (turn[p].pc = "idle" /\ turn[p].execFailed >= 1) => turn[p].corrections = 1

\* C7 as stated: a settled chat call has performed exactly one provider request,
\* or exactly two when the first response was 401.
C7_ExactlyOneOrTwoRequests ==
    \A p \in Callers :
        call[p].pc = "done"
        => \/ call[p].requests = 1 /\ call[p].statuses[1] # 401
           \/ call[p].requests = 2 /\ call[p].statuses[1] = 401

\* C7: a chat call performs at most two provider requests, the second one only
\* after a 401 answer to the first; when the client talks to a provider and the
\* token getter answers each time, a settled call has performed exactly one
\* request, or exactly two when the first response was 401; a 401 answer to the
\* second request fails the call.
C7_AtMostTwoRequests ==
    \A p \in Callers :
        LET c == call[p] IN
        /\ c.requests <= 2
        /\ Len(c.statuses) <= c.requests
        /\ c.requests = 2 => c.statuses[1] = 401
        /\ (c.pc = "done" /\ ~useLocalCodex /\ ~c.tokenFailed)
           => /\ Len(c.statuses) = c.requests
              /\ c.requests = IF c.statuses[1] = 401 THEN 2 ELSE 1
        /\ (c.pc = "done" /\ Len(c.statuses) = 2 /\ c.statuses[2] = 401) => ~c.ok

\* both requests of one call were answered 401 and the call has failed
C7_Witness ==
    /\ call["h1"].pc = "done"
    /\ call["h1"].statuses = <<401, 401>>
    /\ call["h1"].requests = 2
    /\ ~call["h1"].ok

\* stage of an event type within a server turn
Stage(type) ==
    IF type = "thinking" THEN 0
    ELSE IF type \in {"text", "sql"} THEN 1
    ELSE IF type = "executing" THEN 2
    ELSE IF type \in {"result", "error"} THEN 3
    ELSE 4

\* C8: the events a server turn has emitted are ordered by stage: thinking, then
\* text or sql, then executing, then result or error, then summary; an event of
\* an earlier stage never follows one of a later stage, and thinking comes first
\* in every turn that emits anything but an error.
C8_EventsOrderedByStage ==
    \A p \in Callers :
        LET types == EventTypes(turn[p]) IN
        /\ \A i, j \in 1..Len(types) : i < j => Stage(types[i]) <= Stage(types[j])
        /\ \A i, j \in 1..Len(types) : (i < j /\ types[j] = "thinking") => FALSE
        /\ (\E i \in 1..Len(types) : types[i] # "error") => types[1] = "thinking"

\* a turn that went through every stage
C8_Witness ==
    \E p \in Callers :
        /\ turn[p].pc = "idle"
        /\ EventTypes(turn[p]) = <<"thinking", "text", "sql", "executing", "result", "summary">>

\* C9: at most one chat call and at most one execute call are in flight on the
\* conversation state at any time.
C9_OneCallInFlight ==
    /\ Cardinality({p \in Callers : InFlight(call[p])}) <= 1
    /\ Cardinality({p \in Callers : ex[p].pc = "db"}) <= 1

\* C10: execute never throws; when the database call fails, in either mode, the
\* result carries the message of the error the connector threw, no rows and
\* rowCount 0.
C10_ExecuteNeverThrows ==
    \A p \in Callers :
        /\ ~ex[p].thrown
        /\ ex[p].dbFailed
           => /\ ex[p].pc = "done"
              /\ ex[p].result.error = ex[p].driverMessage
              /\ ex[p].result.error # NoError
              /\ ex[p].result.rows = 0
              /\ ex[p].result.rowCount = 0

\* one call failed inside db.query and another inside db.readOnlyQuery
C10_Witness ==
    /\ ex["h1"].dbFailed /\ ex["h1"].mode = "query" /\ ex["h1"].pc = "done"
    /\ ex["h2"].dbFailed /\ ex["h2"].mode = "readOnlyQuery" /\ ex["h2"].pc = "done"

\* C11: execute dispatches by classification: a statement classified
\* non-destructive went exactly once through db.readOnlyQuery and never through
\* db.query, whatever the read-only flag; a statement classified destructive,
\* called with read-only off, went exactly once through db.query and never
\* through db.readOnlyQuery.
C11_DispatchByClassification ==
    \A p \in Callers :
        ex[p].pc # "idle"
        => /\ ~isDestructiveQuery(ex[p].sql)
              => (ex[p].mode = "readOnlyQuery" /\ ex[p].nReadOnlyQuery = 1 /\ ex[p].nQuery = 0)
           /\ (isDestructiveQuery(ex[p].sql) /\ ~ex[p].roAtCall)
              => (ex[p].mode = "query" /\ ex[p].nQuery = 1 /\ ex[p].nReadOnlyQuery = 0)

\* a SELECT called with read-only off and a DELETE called with read-only off,
\* both returned from the database
C11_Witness ==
    /\ ex["h1"].pc = "done" /\ ex["h1"].sql = <<"SELECT">>
    /\ ~ex["h1"].roAtCall /\ ex["h1"].nReadOnlyQuery = 1
    /\ ex["h2"].pc = "done" /\ ex["h2"].sql = <<"delete", "SP", "txt">>
    /\ ~ex["h2"].roAtCall /\ ex["h2"].nQuery = 1

FailsAtOnce(status) == status = 429 \/ status >= 500

\* C14: at the step in which the provider answers 429 or a status >= 500, the
\* chat call fails: no further request is sent, getAccessToken is not called
\* again, and the history is left as it was (no assistant message); when the
\* answer is to the first request, the call has made exactly one request.
C14_RateLimitAndServerErrorFailAtOnce ==
    [][\A p \in Callers :
         (/\ call[p].pc = "http"
          /\ Len(call'[p].statuses) = Len(call[p].statuses) + 1
          /\ FailsAtOnce(call'[p].statuses[Len(call'[p].statuses)]))
         => /\ call'[p].pc = "done"
            /\ ~call'[p].ok
            /\ call'[p].requests = call[p].requests
            /\ call'[p].tokenCalls = call[p].tokenCalls
            /\ history' = history
            /\ (Len(call'[p].statuses) = 1
                => call'[p].requests = 1 /\ call'[p].tokenCalls = 1)]_vars

\* one call ended by a 429 answer to its only request, the history ending with
\* the user message
C14_Witness ==
    /\ call["h1"].pc = "done"
    /\ call["h1"].statuses = <<429>>
    /\ call["h1"].requests = 1
    /\ ~call["h1"].ok
    /\ Len(history) >= 1
    /\ history[Len(history)] = Message("user", call["h1"].text)

\* C15: chat never returns empty text. At the step in which a chat call settles:
\* if it returns, the returned content is not empty; if it fails on a 200
\* answer, it fails with the empty-response error and the history is left as
\* it was (no assistant message).
C15_NoEmptyContent ==
    [][\A p \in Callers :
         (InFlight(call[p]) /\ call'[p].pc = "done")
         => /\ call'[p].ok => AnswerText(call'[p].content) # <<>>
            /\ (/\ call[p].pc = "http"
                /\ ~call'[p].ok
                /\ call'[p].statuses = Append(call[p].statuses, 200))
               => /\ call'[p].error \in {"Resposta vazia do ChatGPT", "Resposta vazia do Anthropic"}
                  /\ history' = history]_vars

\* a call that failed on a 200 answer with empty content
C15_Witness ==
    /\ call["h1"].pc = "done"
    /\ call["h1"].statuses = <<200>>
    /\ ~call["h1"].ok
    /\ call["h1"].error = "Resposta vazia do Anthropic"

ErrorEvents(t) == {i \in 1..Len(t.events) : t.events[i].type = "error"}

C17_SuccessfulTurnSequence ==
    \A p \in Callers :
        LET t == turn[p]
            content == AnswerText(t.answer)
            sql == extractSQL(content)
            rest == textWithoutSQL(content)
        IN  (/\ t.pc = "idle"
             /\ t.answer # ""
             /\ (FirstMatch(content, 1, TRUE) # 0 \/ FirstMatch(content, 1, FALSE) # 0)
             /\ sql # <<>>
             /\ ~isDestructiveQuery(sql)
             /\ t.execOk /\ t.rows >= 1
             /\ t.summaryOk)
            => t.events =
                 <<Event("thinking", <<>>)>>
                 \o (IF rest # <<>> THEN <<Event("text", rest)>> ELSE <<>>)
                 \o <<Event("sql", sql), Event("executing", <<>>), Event("result", <<>>),
                      Event("summary", AnswerText(t.summaryAnswer))>>

\* such a turn without a text event, while another turn is under way
C17_Witness ==
    /\ turn["h1"].pc = "idle"
    /\ turn["h1"].answer = "ansSelectOnly"
    /\ turn["h1"].summaryOk
    /\ EventTypes(turn["h1"]) = <<"thinking", "sql", "executing", "result", "summary">>
    /\ turn["h2"].pc # "idle"

\* C18: a failure of the summary call is swallowed: the turn is back at idle,
\* nothing was sent after the result event, which stands as the last event of
\* the turn, and the handler has not thrown.
C18_SummaryFailureSwallowed ==
    \A p \in Callers :
        turn[p].summaryFailed
        => /\ turn[p].pc = "idle"
           /\ ~turn[p].escaped
           /\ turn[p].events # <<>>
           /\ turn[p].events[Len(turn[p].events)].type = "result"
           /\ ~HasEvent(turn[p], "summary")

\* a server turn that sent its result and whose summary call then failed
C18_Witness ==
    \E p \in Callers :
        /\ turn[p].summaryFailed
        /\ turn[p].rows >= 1
        /\ EventTypes(turn[p]) = <<"thinking", "text", "sql", "executing", "result">>

\* an entry of the foreignKeys or referencedBy list of a table
HasEdge(edges, column, otherTable, otherColumn) ==
    \E i \in 1..Len(edges) :
        /\ edges[i].column = column
        /\ edges[i].referencedTable = otherTable
        /\ edges[i].referencedColumn = otherColumn

\* C19: mirror invariant of the mapped graph: for every outgoing edge c -> B.rc
\* on a table A of the graph, B is in the graph and carries the incoming edge
\* rc <- A.c; for every incoming edge on a table B there is a table A in the
\* graph carrying the matching outgoing edge. Required for any catalog rows.
C19_MirrorInvariant ==
    mapped =>
      \A i \in 1..Len(schemaMap) :
        LET A == schemaMap[i] IN
        /\ \A k \in 1..Len(A.foreignKeys) :
             LET e == A.foreignKeys[k] IN
             \E j \in 1..Len(schemaMap) :
                /\ schemaMap[j].key = e.referencedTable
                /\ HasEdge(schemaMap[j].referencedBy, e.referencedColumn, A.key, e.column)
        /\ \A k \in 1..Len(A.referencedBy) :
             LET r == A.referencedBy[k] IN
             \E j \in 1..Len(schemaMap) :
                /\ schemaMap[j].key = r.referencedTable
                /\ HasEdge(schemaMap[j].foreignKeys, r.referencedColumn, A.key, r.column)

\* C20: findRelatedTables returns neither the start table nor any table twice,
\* whatever the graph, the start table and the depth.
C20_NoStartNoDuplicates ==
    findCalled =>
      /\ \A i \in 1..Len(related) : related[i].key # findStart
      /\ \A i, j \in 1..Len(related) : i # j => related[i].key # related[j].key

\* the start table references itself and lies on a cycle with another table,
\* which is returned
C20_Witness ==
    /\ findCalled
    /\ mapped
    /\ findStart = "s.a"
    /\ findDepth = MaxDepth
    /\ Len(related) = 1
    /\ related[1].key = "s.b"
    /\ InTableMap(schemaMap, "s.a")
    /\ HasEdge(TableMapGet(schemaMap, "s.a").foreignKeys, "c", "s.a", "id")
    /\ HasEdge(TableMapGet(schemaMap, "s.a").foreignKeys, "c", "s.b", "id")
    /\ HasEdge(TableMapGet(schemaMap, "s.b").foreignKeys, "c", "s.a", "id")

\* the keys one hop away from a table of the graph: the other ends of its
\* outgoing and of its incoming edges
Neighbours(tables, key) ==
    IF ~InTableMap(tables, key) THEN {}
    ELSE LET t == TableMapGet(tables, key) IN
         {t.foreignKeys[i].referencedTable : i \in 1..Len(t.foreignKeys)}
         \cup {t.referencedBy[i].referencedTable : i \in 1..Len(t.referencedBy)}

\* the keys at most n hops away from the start
RECURSIVE Within(_, _, _)
Within(tables, startKey, n) ==
    IF n <= 0 THEN {startKey}
    ELSE LET near == Within(tables, startKey, n - 1) IN
         near \cup UNION {Neighbours(tables, k) : k \in near}

\* the hop distance of a key that is within n hops of the start
HopDistance(tables, startKey, key, n) ==
    CHOOSE d \in 0..n :
        /\ key \in Within(tables, startKey, d)
        /\ \A e \in 0..n : key \in Within(tables, startKey, e) => d <= e

\* what findRelatedTables is required to return
IsRelatedTables(result, tables, startKey, depth) ==
    /\ {result[i].key : i \in 1..Len(result)}
         = {k \in Within(tables, startKey, depth) \ {startKey} : InTableMap(tables, k)}
    /\ \A i \in 1..Len(result) : result[i] = TableMapGet(tables, result[i].key)
    /\ \A i, j \in 1..Len(result) :
         i < j => HopDistance(tables, startKey, result[i].key, depth)
                    <= HopDistance(tables, startKey, result[j].key, depth)

\* C21: on a mapped graph findRelatedTables returns exactly the tables of the
\* graph, other than the start, that are at most depth hops from the start over
\* outgoing and incoming foreign-key edges, in non-decreasing hop distance.
C21_ExactlyTheTablesWithinDepth ==
    [][(mapped /\ ~findCalled /\ findCalled')
         => IsRelatedTables(related', schemaMap, findStart', findDepth')]_vars

\* a chain s.a - s.b - s.c searched from s.a: s.b is one hop away over an
\* outgoing edge, s.c two hops away over an incoming edge of s.b
C21_Witness ==
    /\ findCalled
    /\ mapped
    /\ findStart = "s.a"
    /\ findDepth = 2
    /\ Len(related) = 2
    /\ related[1].key = "s.b"
    /\ related[2].key = "s.c"
    /\ "s.c" \notin Neighbours(schemaMap, "s.a")
    /\ HasEdge(TableMapGet(schemaMap, "s.b").referencedBy, "id", "s.c", "c")

\* C22: in the graph produced by mapDatabase no two tables share the identity
\* (schema, name), whatever rows the tables query returns.
C22_UniqueIdentity ==
    mapped => \A i, j \in 1..Len(schemaMap) : i # j => schemaMap[i].key # schemaMap[j].key

\* C23: the stored graph is replaced as a whole only: at every moment it is the
\* graph that the last completed mapDatabase call returned (none before the
\* first), so a getSchemaMap during a running call returns that previous graph
\* or, after the call, the new one, and a call that fails at a query leaves
\* the stored graph as it was.
C23_ReplacedAsAWhole ==
    [][/\ mapped' = lastReturned'.some
       /\ schemaMap' = lastReturned'.tables
       /\ (seen' # seen) => /\ seen'.null = ~lastReturned.some
                            /\ seen'.tables = lastReturned.tables
       /\ (mapCall.pc # "idle" /\ mapCall'.outcome = "failed")
             => (mapped' = mapped /\ schemaMap' = schemaMap)]_vars

\* a graph was stored, the catalog changed, a second call read the new table
\* rows, a reader was served the stored graph while that call awaited the
\* foreign-key query, and the call then failed
C23_Witness ==
    /\ mapped
    /\ Len(schemaMap) = 1
    /\ seen.called
    /\ seen.during = "foreignKeys"
    /\ seen.tables = schemaMap
    /\ ~seen.null
    /\ Len(catTables) = 2
    /\ mapCall.pc = "idle"
    /\ mapCall.outcome = "failed"

\* C24: trimming is first in, first out: a message appended, by addToHistory or
\* as the user message of chat, to a history of exactly 20 entries leaves
\* exactly 20 entries, the previous entries 2..20 in their order followed by
\* the new message.
C24_TrimmingIsFifo ==
    [][(Len(history) = MAX_HISTORY_MESSAGES /\ nOps' = nOps + 1 /\ history' # <<>>)
         => /\ Len(history') = MAX_HISTORY_MESSAGES
            /\ SubSeq(history', 1, MAX_HISTORY_MESSAGES - 1) = Tail(history)
            /\ \/ /\ call' # call
                  /\ history'[MAX_HISTORY_MESSAGES] = Message("user", call'["h1"].text)
               \/ /\ call' = call
                  /\ history'[MAX_HISTORY_MESSAGES].content = "added"]_vars

\* a chat was started on a history of 20 entries that began with a user
\* message: the 20 entries now begin with the assistant message that was second
C24_Witness ==
    /\ Len(history) = MAX_HISTORY_MESSAGES
    /\ nOps = 1
    /\ InFlight(call["h1"])
    /\ history[1] = Message("assistant", "ansText")
    /\ history[MAX_HISTORY_MESSAGES] = Message("user", "q")

\* the final events of a stream that carry assistant output text
CarriesText(event) ==
    /\ event.type \in {"response.completed", "response.done"}
    /\ \E i \in 1..Len(event.parts) : event.parts[i] # <<>>

\* the texts that a final event of the stream carries: each of its non-empty
\* parts, and its parts joined
CarriedTexts(data) ==
    UNION {{data[k].parts[i] : i \in 1..Len(data[k].parts)} \cup {Concat(data[k].parts)} :
             k \in {j \in 1..Len(data) : CarriesText(data[j])}} \ {<<>>}

\* C25: in the first provider's stream, when a final event carries assistant
\* output text the parsed content is that text, whatever deltas came before
\* or after; the concatenation of the deltas is the result only when no final
\* event carried text.
C25_CompletedTextIsAuthoritative ==
    sseParsed.by = "openai" =>
        IF \E k \in 1..Len(sseData) : CarriesText(sseData[k])
        THEN sseParsed.content \in CarriedTexts(sseData)
        ELSE sseParsed.content = DeltaPass(sseData)

\* the texts of the text deltas of the second provider's stream, in stream order
StreamedTexts(data) ==
    [i \in 1..Len(data) |->
        IF data[i].type = "content_block_delta" /\ data[i].sub = "text_delta"
        THEN data[i].text ELSE <<>>]

\* the number that the last event of a type with a usage object gives, 0 if none
LastUsage(data, type, field) ==
    LET at == {i \in 1..Len(data) : data[i].type = type /\ data[i].usage.given} IN
    IF at = {} THEN 0
    ELSE OrZero(data[CHOOSE i \in at : \A j \in at : j <= i].usage[field])

\* C26: in the second provider's stream the parsed content is the concatenation,
\* in stream order, of the texts of the content_block_delta events; the input
\* tokens are those of message_start, the output tokens those of message_delta,
\* the total their sum; the body is read as one JSON object only when no
\* streamed content was captured.
C26_AnthropicStream ==
    sseParsed.by = "anthropic" =>
        LET streamed == Concat(StreamedTexts(sseData)) IN
        /\ sseParsed.usage.total = sseParsed.usage.input + sseParsed.usage.output
        /\ streamed # <<>> =>
             /\ sseParsed.content = streamed
             /\ sseParsed.usage.input = LastUsage(sseData, "message_start", "input")
             /\ sseParsed.usage.output = LastUsage(sseData, "message_delta", "output")
        /\ (streamed = <<>> /\ ~IsJsonBody(sseData)) =>
             /\ sseParsed.content = <<>>
             /\ sseParsed.usage.input = LastUsage(sseData, "message_start", "input")
             /\ sseParsed.usage.output = LastUsage(sseData, "message_delta", "output")
        /\ (streamed = <<>> /\ IsJsonBody(sseData)) =>
             /\ sseParsed.content = Concat(sseData[1].parts)
             /\ sseData[1].usage.given =>
                  /\ sseParsed.usage.input = OrZero(sseData[1].usage.input)
                  /\ sseParsed.usage.output = OrZero(sseData[1].usage.output)

\* a stream of message_start and two text deltas was parsed into the two texts
\* joined, with the input tokens of message_start
C26_Witness ==
    /\ sseParsed.by = "anthropic"
    /\ Len(sseData) = 3
    /\ sseData[1].type = "message_start"
    /\ sseData[2].type = "content_block_delta"
    /\ sseData[3].type = "content_block_delta"
    /\ sseParsed.content = <<"a", "b">>
    /\ sseParsed.usage = [input |-> 3, output |-> 0, total |-> 3]

\* the trimmed content of the first fenced block of a kind, <<>> without one
FirstBlock(s, tagged) ==
    IF FirstMatch(s, 1, tagged) = 0 THEN <<>>
    ELSE Trim(FenceMatch(s, FirstMatch(s, 1, tagged), tagged).content)

\* C27: extractSQL applies its three tiers in order, the first match wins: the
\* non-empty fenced block tagged sql, trimmed, also when a fenced block without
\* a tag comes earlier; otherwise the fenced block without a tag, if its
\* content starts with a keyword of the list; otherwise the line scan; the
\* result is absent exactly when no tier matches.
C27_TiersInOrder ==
    extracted.called =>
        LET tier1 == FirstBlock(answerText, TRUE) # <<>>
            tier2 == /\ FirstMatch(answerText, 1, FALSE) # 0
                     /\ looksLikeSQL(FirstBlock(answerText, FALSE))
            tier3 == LineScan(answerText) # <<>>
        IN  /\ tier1 => extracted.sql = FirstBlock(answerText, TRUE)
            /\ (~tier1 /\ tier2) => extracted.sql = FirstBlock(answerText, FALSE)
            /\ (~tier1 /\ ~tier2) => extracted.sql = LineScan(answerText)
            /\ (extracted.sql = <<>>) <=> (~tier1 /\ ~tier2 /\ ~tier3)

\* a fenced block without a tag that holds SQL comes before a fenced block
\* tagged sql: the content of the tagged block is returned
C27_Witness ==
    /\ extracted.called
    /\ FirstMatch(answerText, 1, FALSE) # 0
    /\ FirstMatch(answerText, 1, FALSE) < FirstMatch(answerText, 1, TRUE)
    /\ looksLikeSQL(FirstBlock(answerText, FALSE))
    /\ extracted.sql = <<"delete", "SP", "txt", "SEMI">>
    /\ FirstBlock(answerText, FALSE) = <<"SELECT", "SP", "txt">>

\* the lines of a text, trimmed
TrimmedLines(s) == [i \in 1..Len(SplitLines(s)) |-> Trim(SplitLines(s)[i])]

\* the contiguous non-blank lines from the first line that looks like SQL up
\* to the next blank line, joined; <<>> when no line looks like SQL
ContiguousRun(s) ==
    LET lines == TrimmedLines(s)
        starts == {i \in 1..Len(lines) : looksLikeSQL(lines[i])}
        first == CHOOSE i \in starts : \A j \in starts : i <= j
        blanks == {i \in 1..Len(lines) : i > first /\ lines[i] = <<>>}
        stop == IF blanks = {} THEN Len(lines) + 1
                ELSE CHOOSE i \in blanks : \A j \in blanks : i <= j
    IN  IF starts = {} THEN <<>> ELSE JoinLines(SubSeq(lines, first, stop - 1))

\* C28: when extractSQL falls back to the line scan, it returns the contiguous
\* non-blank lines that start at the first line that looks like SQL and end
\* before the next blank line, and nothing of what follows that blank line.
C28_LineScanStopsAtBlankLine ==
    (/\ extracted.called
     /\ FirstBlock(answerText, TRUE) = <<>>
     /\ ~(FirstMatch(answerText, 1, FALSE) # 0 /\ looksLikeSQL(FirstBlock(answerText, FALSE)))
     /\ extracted.sql # <<>>)
        => extracted.sql = ContiguousRun(answerText)

\* a text without its comments, read from left to right: a -- comment runs up
\* to the line end, a /* comment up to the nearest */ (an opener without a
\* closer is no comment); inside a comment of one kind the marks of the other
\* kind mean nothing
RECURSIVE WithoutComments(_, _, _)
WithoutComments(s, i, mode) ==
    IF i > Len(s) THEN <<>>
    ELSE IF mode = "line"
    THEN IF s[i] = "NL" THEN <<s[i]>> \o WithoutComments(s, i + 1, "code")
         ELSE WithoutComments(s, i + 1, "line")
    ELSE IF s[i] = "DASH2" THEN WithoutComments(s, i + 1, "line")
    ELSE IF s[i] = "BOPEN" /\ FirstClose(s, i + 1) # 0
    THEN WithoutComments(s, FirstClose(s, i + 1) + 1, "code")
    ELSE <<s[i]>> \o WithoutComments(s, i + 1, "code")

\* C29: isDestructiveQuery is true exactly when, in the text without its --
\* and /* */ comments, in upper case, a keyword of the list stands word-bounded
\* at the start of the text or directly after a ; (white space allowed between).
C29_ExactlyKeywordAtStatementStart ==
    qCalled => (qResult <=> KeywordRegexTest(UpperAll(Trim(WithoutComments(qText, 1, "code")))))

\* the order in which a turn passes through its phases, and a call through its
\* steps (one refresh and one second request at most): later is smaller
PhaseRank(pc) ==
    CASE pc = "chat" -> 6 [] pc = "confirm" -> 5 [] pc = "exec" -> 4 [] pc = "fixchat" -> 3
      [] pc = "fixexec" -> 2 [] pc = "summary" -> 1 [] OTHER -> 0

CallRank(c) ==
    CASE c.pc = "token" /\ ~c.isRetry -> 5 [] c.pc = "http" /\ ~c.isRetry -> 4
      [] c.pc = "refresh" -> 3 [] c.pc = "token" -> 2 [] c.pc = "http" -> 1
      [] c.pc = "local" -> 1 [] OTHER -> 0

TurnRank(p) == PhaseRank(turn[p].pc) * 10 + CallRank(call[p])

\* no step of a running turn goes back: each one lowers the rank of its handler,
\* also when the turns of two handlers interleave (holds under SpecServer and
\* SpecRepl)
TurnRankDecreases ==
    [][\A p \in Callers :
         (turn[p].pc # "idle" /\ <<turn[p], call[p], ex[p]>> # <<turn'[p], call'[p], ex'[p]>>)
         => TurnRank(p)' < TurnRank(p)]_vars

\* a running turn always waits for a call that is in flight (or, in the REPL,
\* for the answer to the confirmation prompt)
TurnAlwaysPending ==
    \A p \in Callers :
        /\ turn[p].pc \in {"chat", "fixchat", "summary"}
               => (InFlight(call[p]) /\ EventsAt(call[p]) # {})
        /\ turn[p].pc \in {"exec", "fixexec"} => ex[p].pc = "db"
        /\ turn[p].pc \in {"idle", "chat", "fixchat", "summary", "exec", "fixexec", "confirm"}

-----------------------------------------------------------------------------
(* DatabaseConnector.readOnlyQuery, connector.ts 101-144 *)

\* a variant of readOnlyQueryResume without the finally block: the client is
\* released on the path that returns only
readOnlyQueryResume_NoFinally(c, ok) ==
    LET Issue(q) == [c EXCEPT !.issued = Append(@, q), !.pc = q]
        Settled == [c EXCEPT !.results = Append(@, ok)]
    IN  IF c.pc = "connect"
        THEN IF ok
             THEN [Issue("BEGIN READ ONLY") EXCEPT !.client = TRUE]
             ELSE [c EXCEPT !.pc = "done", !.outcome = "thrown"]
        ELSE IF c.pc = "ROLLBACK"
        THEN [Settled EXCEPT !.pc = "done", !.outcome = "thrown"]
        ELSE IF ~ok
        THEN [Settled EXCEPT !.issued = Append(@, "ROLLBACK"), !.pc = "ROLLBACK"]
        ELSE IF c.pc = "BEGIN READ ONLY"
        THEN [Settled EXCEPT !.issued = Append(@, "sql"), !.pc = "sql"]
        ELSE IF c.pc = "sql"
        THEN [Settled EXCEPT !.issued = Append(@, "COMMIT"), !.pc = "COMMIT"]
        ELSE [Settled EXCEPT !.pc = "done", !.outcome = "returned", !.released = @ + 1]

\* the call resumes after the await it is suspended at (pool.connect, or the
\* statement named by pc), which resolved (ok) or rejected: lines 109-115 on
\* success; the catch of 126-138 issues ROLLBACK when a client was acquired and
\* ignores its failure; the finally of 139-143 releases an acquired client
readOnlyQueryResume(c, ok) ==
    LET Issue(q) == [c EXCEPT !.issued = Append(@, q), !.pc = q]
        Settled == [c EXCEPT !.results = Append(@, ok)]
        Finally(d, outcome) ==
            [d EXCEPT !.pc = "done", !.outcome = outcome,
                      !.released = IF d.client THEN @ + 1 ELSE @]
    IN  IF c.pc = "connect"
        THEN IF ok
             THEN [Issue("BEGIN READ ONLY") EXCEPT !.client = TRUE]
             ELSE Finally(c, "thrown")
        ELSE IF c.pc = "ROLLBACK"
        THEN Finally(Settled, "thrown")
        ELSE IF ~ok
        THEN [Settled EXCEPT !.issued = Append(@, "ROLLBACK"), !.pc = "ROLLBACK"]
        ELSE IF c.pc = "BEGIN READ ONLY"
        THEN [Settled EXCEPT !.issued = Append(@, "sql"), !.pc = "sql"]
        ELSE IF c.pc = "sql"
        THEN [Settled EXCEPT !.issued = Append(@, "COMMIT"), !.pc = "COMMIT"]
        ELSE Finally(Settled, "returned")

ConnectorInit ==
    /\ ConnIdle
    /\ ClassifyIdle /\ ParserIdle /\ SchemaIdle /\ ExecIdle /\ LLMIdle /\ TurnsIdle

\* connector.ts 101-109: readOnlyQuery(sql) is called and awaits pool.connect()
ReadOnlyQuery(p) ==
    /\ roq[p].pc \in {"idle", "done"}
    /\ roq' = [roq EXCEPT ![p] = [RoqIdle EXCEPT !.pc = "connect"]]
    /\ UNCHANGED <<classifyVars, schemaVars, execVars, llmVars, turnVars, parserVars>>

\* what the call awaits resolves or rejects
RoqSettles(p, ok) ==
    /\ roq[p].pc \notin {"idle", "done"}
    /\ roq' = [roq EXCEPT ![p] = readOnlyQueryResume(roq[p], ok)]
    /\ UNCHANGED <<classifyVars, schemaVars, execVars, llmVars, turnVars, parserVars>>

ConnectorNext ==
    \/ \E p \in Callers : ReadOnlyQuery(p)
    \/ \E p \in Callers, ok \in BOOLEAN : RoqSettles(p, ok)

SpecConnector == ConnectorInit /\ [][ConnectorNext]_vars

-----------------------------------------------------------------------------
\* C31: when the answer of the model holds no extractable SQL, the turn has sent
\* exactly thinking and then text with the whole answer, has called the Model
\* Client once and the Executor never, and is idle again.
C31_NoSqlIsPlainText ==
    \A p \in Callers :
        (turn[p].answer # "" /\ extractSQL(AnswerText(turn[p].answer)) = <<>>)
        => /\ turn[p].pc = "idle"
           /\ turn[p].events = <<Event("thinking", <<>>),
                                 Event("text", AnswerText(turn[p].answer))>>
           /\ turn[p].nChat = 1
           /\ turn[p].nExec = 0

\* a turn has ended with a plain-text answer while the other handler still waits
C31_Witness ==
    /\ turn["h1"].pc = "idle"
    /\ turn["h1"].answer = "ansText"
    /\ EventTypes(turn["h1"]) = <<"thinking", "text">>
    /\ turn["h2"].pc = "chat"

\* C32: a summary is requested only after an execution that succeeded with at
\* least one row, and the request carries at most the first 20 rows of the
\* result in their order; after a successful execution with no row the result
\* event is sent and no summary is requested.
C32_SummaryOnlyForRows ==
    \A p \in Callers :
        LET t == turn[p] IN
        /\ t.nChat = 2
           => /\ t.execOk /\ t.rows >= 1
              /\ HasEvent(t, "result")
              /\ Len(t.rowsToSend) <= 20
              /\ t.rowsToSend = SubSeq(Rows(t.rows), 1, Len(t.rowsToSend))
        /\ (t.execOk /\ t.rows = 0)
           => /\ HasEvent(t, "result")
              /\ t.nChat = 1
              /\ t.pc = "idle"

\* one turn asks for the summary of a result of more than 20 rows, another has
\* ended after a result without rows
C32_Witness ==
    /\ turn["h1"].pc = "summary"
    /\ turn["h1"].rows = 21
    /\ Len(turn["h1"].rowsToSend) = 20
    /\ turn["h2"].pc = "idle"
    /\ turn["h2"].execOk
    /\ turn["h2"].rows = 0

\* C35: the read-only flag of a QueryExecutor is true on construction; after
\* setReadOnlyMode(e), isReadOnly() is e; no other operation of the executor
\* changes what isReadOnly() returns.
C35_FlagFollowsSetReadOnlyMode ==
    /\ isReadOnly = TRUE
    /\ [][\/ \E e \in BOOLEAN : SetReadOnlyMode(e) /\ isReadOnly' = e
          \/ isReadOnly' = isReadOnly]_vars

\* the mode was turned off and a destructive statement is on its way to the
\* database, the mode still off
C35_Witness ==
    /\ ~isReadOnly
    /\ ex["h1"].pc = "db"
    /\ ex["h1"].mode = "query"
    /\ ex["h2"].pc = "done"
    /\ ex["h2"].mode = "readOnlyQuery"

\* C37: readOnlyQuery follows the transaction protocol on one pooled client:
\* BEGIN READ ONLY is issued before the statement, COMMIT only after the
\* statement succeeded, after any failure on the client a ROLLBACK is issued
\* before the call throws, the call returns only when all three succeeded, and
\* an acquired client is released exactly once, when the call ends.
C37_ReadOnlyTransactionProtocol ==
    \A p \in Callers :
        LET c == roq[p]
            Failed == \E i \in 1..Len(c.results) : ~c.results[i] /\ c.issued[i] # "ROLLBACK"
        IN  /\ c.issued # <<>> => c.client /\ c.issued[1] = "BEGIN READ ONLY"
            /\ \A i \in 1..Len(c.issued) :
                 /\ c.issued[i] = "sql" => i = 2 /\ c.results[1]
                 /\ c.issued[i] = "COMMIT" => i = 3 /\ c.issued[2] = "sql" /\ c.results[2]
            /\ (Failed /\ c.pc # "ROLLBACK") => c.pc = "done" /\ c.outcome = "thrown"
            /\ (c.outcome = "thrown" /\ c.client)
                 => Failed /\ c.issued[Len(c.issued)] = "ROLLBACK"
            /\ c.outcome = "returned"
                 => c.issued = <<"BEGIN READ ONLY", "sql", "COMMIT">> /\ c.results = <<TRUE, TRUE, TRUE>>
            /\ c.released = IF c.pc = "done" /\ c.client THEN 1 ELSE 0

\* one call has thrown after its COMMIT failed and its ROLLBACK failed too, its
\* client released; another has returned
C37_Witness ==
    /\ roq["h1"].outcome = "thrown"
    /\ roq["h1"].issued = <<"BEGIN READ ONLY", "sql", "COMMIT", "ROLLBACK">>
    /\ roq["h1"].results = <<TRUE, TRUE, FALSE, FALSE>>
    /\ roq["h1"].released = 1
    /\ roq["h2"].outcome = "returned"
    /\ roq["h2"].released = 1

\* C38: a chat() call that fails does not take its append back: the call began
\* by leaving the previous history, trimmed to the bound, plus its user
\* message; no step of the call up to its failure changes the history, so when
\* it fails the history ends with that user message and holds no reply to it;
\* the next chat() then leaves two user messages in a row.
C38_FailedChatKeepsUserMessage ==
    [][LET c == call["h1"]
           d == call'["h1"]
       IN  /\ (~InFlight(c) /\ InFlight(d))
                => history' = trimHistory(Append(history, Message("user", d.text)))
           /\ (InFlight(c) /\ ~(d.pc = "done" /\ d.ok))
                => /\ history' = history
                   /\ history # <<>>
                   /\ history[Len(history)] = Message("user", c.text)
           /\ (c.pc = "done" /\ ~c.ok /\ InFlight(d)
                 /\ history # <<>> /\ history[Len(history)].role = "user")
                => /\ Len(history') >= 2
                   /\ history'[Len(history') - 1].role = "user"
                   /\ history'[Len(history')].role = "user"]_vars

\* a call on a full history was refused with 429 and the next call is on its way:
\* the history ends with the user messages of both
C38_Witness ==
    /\ InFlight(call["h1"])
    /\ nOps = 2
    /\ Len(history) = MAX_HISTORY_MESSAGES
    /\ history[Len(history) - 1] = Message("user", "q")
    /\ history[Len(history)] = Message("user", "q")

(* C33: the conversation history is cleared on reconnect: when a reconnect
   (the REPL's /reconnect, a connect request on the server) has established
   the new connection, the next turn's call to the Model Client finds no message of the previous
   connection, so that the history after the call's push holds the new user
   message alone.  ChatREPL.reconnect never clears the history: refuted under
   SpecRepl.  On the server the connect request drops the Model Client, and
   the formula fails under SpecRoutes only when a turn spans the connect
   request and sends its summary request through a client created meanwhile. *)
C33_HistoryClearedOnReconnect ==
    [][(srv.sinceConnect /\ turnsStarted' = turnsStarted + 1) => Len(history') <= 1]_vars

(* C34: whenever a chat turn on the server calls the Model Client, the system
   prompt of that client is the rendering of the completed SchemaGraph of the
   active connection: never the empty prompt of a client on which none was
   set, never the schema-not-mapped placeholder.  Refuted under SpecRoutes:
   a login that completes after the connect stores a client without prompt,
   and a chat message that arrives while the connect request is mapping
   creates the client from the placeholder. *)
C34_PromptIsSchemaRendering ==
    \A p \in Callers : \A i \in 1..Len(turn[p].prompts) : turn[p].prompts[i] = "schema"

(* C36: direct execution is available as soon as a database is connected:
   once a connect request has succeeded, POST /api/query/execute with a
   non-empty SQL text reaches executor.execute, with no chat turn needed
   first.  Refuted under SpecRoutes: the executor exists only after the first
   chat turn created it, and until then the route answers status 500. *)
C36_DirectExecutionAfterConnect ==
    [][\A sql \in DirectSqls \ {<<>>} :
          (/\ srv.activeConnection /\ srv.schemaEngine = "mapped" /\ srv.connect = "idle"
           /\ PostExecute("h2", sql))
          => turn'["h2"].nExec = 1]_vars

(* C39: the mode that POST /api/query/read-only last answered on this
   connection (read-only on, for a connection on which it has not answered
   yet) is the mode of the executor that the next direct execution or chat
   turn uses.  Refuted under SpecRoutes: without an executor the route
   changes nothing and still answers the requested mode; the executor that
   the next chat turn creates is read-only. *)
C39_ReportedModeIsApplied ==
    srv.executor => (isReadOnly = srv.reported)

\* in this step an executor.execute call of caller p returned: one that waited
\* for the database, or one that returned without waiting
ExecuteReturned(p) ==
    \/ ex[p].pc = "db" /\ ex'[p].pc = "idle"
    \/ /\ ex[p].pc = "idle" /\ ex'[p].pc = "idle"
       /\ turn'[p].nExec = 1
       /\ \/ turn[p].pc = "chat"
          \/ \E sql \in DirectSqls : PostExecute(p, sql)

\* qh2 is qh with one entry added at the front and, beyond the limit, without its last
PushedOnto(qh, qh2) ==
    /\ Len(qh2) = IF Len(qh) < QUERY_HISTORY_LIMIT THEN Len(qh) + 1 ELSE QUERY_HISTORY_LIMIT
    /\ \A i \in 2..Len(qh2) : qh2[i] = qh[i - 1]

(* C40: the server's query history never holds more than 50 entries and is
   ordered newest first: every execution that returns, in a chat turn or a
   direct request, adds exactly one entry at the front and drops exactly the
   oldest one when the bound would be exceeded; nothing else changes the
   history but its deletion, which empties it. *)
C40_QueryHistoryBoundedNewestFirst ==
    /\ [](Len(queryHistory) <= QUERY_HISTORY_LIMIT)
    /\ [][IF \E p \in Callers : ExecuteReturned(p)
          THEN PushedOnto(queryHistory, queryHistory')
          ELSE queryHistory' \in {queryHistory, <<>>}]_vars

\* started from 50 entries, a chat turn and a direct execution have each added
\* one: the two oldest are gone, and what was third oldest is now the last
C40_Witness ==
    /\ Len(queryHistory) = QUERY_HISTORY_LIMIT
    /\ queryHistory[QUERY_HISTORY_LIMIT].rowCount = 3
    /\ turn["h1"].pc = "idle" /\ turn["h1"].nExec = 1
    /\ turn["h2"].pc = "idle" /\ turn["h2"].nExec = 1

====
